---------------------------- MODULE Spec2Model ----------------------------
(***************************************************************************)
(* A model of discord/ext/commands/converter.py: the type-directed         *)
(* dispatch of run_converters (Union), the Greedy repetition, the entity   *)
(* converters' lookup order and RoleConverter's fuzzy search.              *)
(*                                                                         *)
(* Strings are sequences of one-character strings, so that lower(),        *)
(* split(), `in`, int() and the regular expressions are computed on the    *)
(* characters.  Each area has its own specification (SpecUnion,            *)
(* SpecGreedy, SpecFuzzy, SpecEntity, ...); the variables an area does not *)
(* use stay at their idle value.                                           *)
(***************************************************************************)
EXTENDS Integers, Sequences, FiniteSets, TLC

VARIABLES
    converter,   \* run_converters: the declared type of the parameter
    argument,    \* run_converters: the token being converted
    param,       \* run_converters: the Parameter (kind, required, default)
    view,        \* ctx.view: the token cursor (buffer, index, previous, undos)
    pc,          \* position of the conversion chain
    idx,         \* number of Union constituents the for loop has passed
    errors,      \* run_converters: the errors list of the Union branch
    attempts,    \* constituents (or tokens) a conversion was attempted on, in order
    outcome,     \* what the call returned or raised
    result,      \* Greedy: the accumulated sequence
    nextRead,    \* Greedy: the token the following parameter reads
    query,       \* fuzzy_search: query
    choices,     \* fuzzy_search: choices (role names, in list order)
    threshold,   \* fuzzy_search: threshold, a fraction <<num, den>>
    found,       \* fuzzy_search: the returned choice (index) or none
    kind,        \* entity conversion: the converter class
    ctx,         \* entity conversion: ctx.guild present, ctx.message.mentions, flags
    cache,       \* the cached entities of the converter's kind: those of the
                 \* context's guild (or channel) and those of the rest of the client
    calls,       \* entity conversion: the remote calls issued, in order
    stages,      \* entity conversion: the lookups consulted, in order
    conversions, \* run_converters: the conversions dict of the Literal branch
    instances,   \* the converter instances constructed so far, each with the
                 \* number of convert calls it has served
    reads        \* Greedy: what constructed_converter returned, read by read

rcVars == <<converter, argument, param, view, pc, idx, errors, attempts, outcome>>
greedyVars == <<result, nextRead>>
fuzzyVars == <<query, choices, threshold, found>>
entityVars == <<kind, ctx, cache, calls, stages>>
literalVars == <<conversions>>
instanceVars == <<instances, reads>>
vars == <<rcVars, greedyVars, fuzzyVars, entityVars, literalVars, instanceVars>>

---------------------------------------------------------------------------
(* Characters and strings *)

LowerChar(c) ==
    CASE c = "A" -> "a" [] c = "B" -> "b" [] c = "C" -> "c" [] c = "D" -> "d"
      [] c = "E" -> "e" [] c = "F" -> "f" [] c = "G" -> "g" [] c = "H" -> "h"
      [] c = "I" -> "i" [] c = "J" -> "j" [] c = "K" -> "k" [] c = "L" -> "l"
      [] c = "M" -> "m" [] c = "N" -> "n" [] c = "O" -> "o" [] c = "P" -> "p"
      [] c = "Q" -> "q" [] c = "R" -> "r" [] c = "S" -> "s" [] c = "T" -> "t"
      [] c = "U" -> "u" [] c = "V" -> "v" [] c = "W" -> "w" [] c = "X" -> "x"
      [] c = "Y" -> "y" [] c = "Z" -> "z" [] OTHER -> c

\* str.lower()
Lower(s) == [i \in 1..Len(s) |-> LowerChar(s[i])]

DigitChars == {"0", "1", "2", "3", "4", "5", "6", "7", "8", "9"}

DigitValue(c) ==
    CASE c = "0" -> 0 [] c = "1" -> 1 [] c = "2" -> 2 [] c = "3" -> 3
      [] c = "4" -> 4 [] c = "5" -> 5 [] c = "6" -> 6 [] c = "7" -> 7
      [] c = "8" -> 8 [] c = "9" -> 9

AllDigits(s) == \A i \in 1..Len(s) : s[i] \in DigitChars

RECURSIVE DecimalValue(_)
DecimalValue(s) ==
    IF s = <<>> THEN 0
    ELSE 10 * DecimalValue(SubSeq(s, 1, Len(s) - 1)) + DigitValue(s[Len(s)])

---------------------------------------------------------------------------
(* Values, errors and the result of a call *)

None == [kind |-> "None", val |-> 0]
IntVal(n) == [kind |-> "int", val |-> n]
BoolVal(b) == [kind |-> "bool", val |-> b]
StrVal(s) == [kind |-> "str", val |-> s]
DefaultVal == [kind |-> "default", val |-> 0]

\* an exception: its class, the converter or type it names, the token or value
\* it carries, and the class of the exception it wraps
Exc(type, conv, arg, cause) == [type |-> type, conv |-> conv, arg |-> arg, cause |-> cause]

NoExc == Exc("none", "", <<>>, "")
BadArgument(name) == Exc("BadArgument", name, <<>>, "")
BadBoolArgument(lowered) == Exc("BadBoolArgument", "bool", lowered, "")

Return(v) == [ok |-> TRUE, val |-> v, exc |-> NoExc, errors |-> <<>>]
Raise(e) == [ok |-> FALSE, val |-> None, exc |-> e, errors |-> <<>>]

Idle == [ok |-> FALSE, val |-> None, exc |-> NoExc, errors |-> <<>>]

---------------------------------------------------------------------------
(* Scalar conversions *)

TruthyWords == {<<"y","e","s">>, <<"y">>, <<"t","r","u","e">>, <<"t">>, <<"1">>,
                <<"e","n","a","b","l","e">>, <<"o","n">>}
FalsyWords == {<<"n","o">>, <<"n">>, <<"f","a","l","s","e">>, <<"f">>, <<"0">>,
               <<"d","i","s","a","b","l","e">>, <<"o","f","f">>}

\* A bug the keyword claim must detect: the token is not lower-cased.
ConvertToBoolCaseSensitive(arg) ==
    IF arg \in TruthyWords THEN Return(BoolVal(TRUE))
    ELSE IF arg \in FalsyWords THEN Return(BoolVal(FALSE))
    ELSE Raise(BadBoolArgument(Lower(arg)))

\* _convert_to_bool
ConvertToBool(arg) ==
    LET lowered == Lower(arg) IN
    IF lowered \in TruthyWords THEN Return(BoolVal(TRUE))
    ELSE IF lowered \in FalsyWords THEN Return(BoolVal(FALSE))
    ELSE Raise(BadBoolArgument(lowered))

\* int(argument): an optional sign and at least one decimal digit
IntCall(arg) ==
    LET signed == Len(arg) > 0 /\ arg[1] \in {"-", "+"}
        digits == IF signed THEN Tail(arg) ELSE arg
    IN  IF Len(digits) > 0 /\ AllDigits(digits)
        THEN [ok |-> TRUE,
              val |-> IF signed /\ arg[1] = "-" THEN 0 - DecimalValue(digits)
                      ELSE DecimalValue(digits)]
        ELSE [ok |-> FALSE, val |-> 0]

\* converter(argument) for the builtin types: int parses, str returns the token,
\* NoneType takes no argument and raises TypeError
ConstructorCall(conv, arg) ==
    CASE conv = "int" ->
            IF IntCall(arg).ok THEN [ok |-> TRUE, val |-> IntVal(IntCall(arg).val)]
            ELSE [ok |-> FALSE, val |-> None]
      [] conv = "str" -> [ok |-> TRUE, val |-> StrVal(arg)]
      [] OTHER -> [ok |-> FALSE, val |-> None]

\* A bug the Greedy claim must detect: the constructor's failure is swallowed
\* and None returned instead of BadArgument being raised.
ActualConversionSwallows(conv, arg) ==
    IF conv = "bool" THEN ConvertToBool(arg)
    ELSE IF ConstructorCall(conv, arg).ok THEN Return(ConstructorCall(conv, arg).val)
    ELSE Return(None)

\* _actual_conversion for the builtin types: bool is special-cased, everything
\* else is called as a constructor and its failure wrapped in BadArgument
ActualConversion(conv, arg) ==
    IF conv = "bool" THEN ConvertToBool(arg)
    ELSE IF ConstructorCall(conv, arg).ok THEN Return(ConstructorCall(conv, arg).val)
    ELSE Raise(BadArgument(conv))

---------------------------------------------------------------------------
(* The token cursor (ctx.view) *)

\* view.get_quoted_word(): remember where the read started, hand out the token
ReadToken(v) == [v EXCEPT !.previous = v.index, !.index = v.index + 1]

\* view.undo(): push back the last token read
Undo(v) == [v EXCEPT !.index = v.previous, !.undos = v.undos + 1]

\* the cursor of a call that has just read `arg`, with `rest` still unread
ViewAfterRead(arg, rest) ==
    [buffer |-> <<arg>> \o rest, index |-> 1, previous |-> 0, undos |-> 0]

IdleView == [buffer |-> <<>>, index |-> 0, previous |-> 0, undos |-> 0]

---------------------------------------------------------------------------
(* run_converters: the Union branch *)

MaxUnionArgs == 3

UnionTypes == {"int", "bool", "str", "NoneType"}

\* typing.Union keeps its constituents distinct and has at least two of them
UnionArgs ==
    {s \in UNION {[1..n -> UnionTypes] : n \in 2..MaxUnionArgs} :
        \A i, j \in DOMAIN s : i # j => s[i] # s[j]}

UnionTokens == {<<"1">>, <<"4", "2">>, <<"Y", "e", "s">>, <<"x">>, <<"-", "7">>}

ParamKinds == {"POSITIONAL_OR_KEYWORD", "VAR_POSITIONAL"}

BadUnionArgument(errs) ==
    [ok |-> FALSE, val |-> None,
     exc |-> Exc("BadUnionArgument", "Union", <<>>, ""),
     errors |-> errs]

\* param.get_default(ctx)
GetDefault(p) == DefaultVal

\* run_converters(ctx, conv, argument, param) for a constituent that is no
\* generic form: origin is None and the call ends in _actual_conversion
RunConstituent(conv, arg) == ActualConversion(conv, arg)

\* A bug the ordering claim must detect: a success does not leave the loop.
UnionBodyNoShortCircuit(st, args, arg, p) ==
    LET conv == args[st.idx + 1]
        r == RunConstituent(conv, arg)
    IN  IF conv = "NoneType" /\ p.kind # "VAR_POSITIONAL"
        THEN [st EXCEPT !.view = Undo(st.view), !.pc = "done",
                        !.outcome = Return(IF p.required THEN None ELSE GetDefault(p))]
        ELSE IF r.ok
        THEN [st EXCEPT !.attempts = Append(st.attempts, conv),
                        !.outcome = Return(r.val), !.idx = st.idx + 1]
        ELSE [st EXCEPT !.attempts = Append(st.attempts, conv),
                        !.errors = Append(st.errors, r.exc),
                        !.idx = st.idx + 1]

\* the loop body with the cursor also pushed back when a constituent fails
UnionBodyUndoesOnError(st, args, arg, p) ==
    LET conv == args[st.idx + 1]
        r == RunConstituent(conv, arg)
    IN  IF conv = "NoneType" /\ p.kind # "VAR_POSITIONAL"
        THEN [st EXCEPT !.view = Undo(st.view), !.pc = "done",
                        !.outcome = Return(IF p.required THEN None ELSE GetDefault(p))]
        ELSE IF r.ok
        THEN [st EXCEPT !.attempts = Append(st.attempts, conv),
                        !.outcome = Return(r.val), !.pc = "done"]
        ELSE [st EXCEPT !.attempts = Append(st.attempts, conv),
                        !.errors = Append(st.errors, r.exc),
                        !.view = Undo(st.view),
                        !.idx = st.idx + 1]

\* A bug the absence claim must detect: the token is not pushed back.
UnionBodyNoUndo(st, args, arg, p) ==
    LET conv == args[st.idx + 1]
        r == RunConstituent(conv, arg)
    IN  IF conv = "NoneType" /\ p.kind # "VAR_POSITIONAL"
        THEN [st EXCEPT !.pc = "done",
                        !.outcome = Return(IF p.required THEN None ELSE GetDefault(p))]
        ELSE IF r.ok
        THEN [st EXCEPT !.attempts = Append(st.attempts, conv),
                        !.outcome = Return(r.val), !.pc = "done"]
        ELSE [st EXCEPT !.attempts = Append(st.attempts, conv),
                        !.errors = Append(st.errors, r.exc),
                        !.idx = st.idx + 1]

\* A bug the compound-error claim must detect: the newest error goes first.
UnionBodyPrepend(st, args, arg, p) ==
    LET conv == args[st.idx + 1]
        r == RunConstituent(conv, arg)
    IN  IF conv = "NoneType" /\ p.kind # "VAR_POSITIONAL"
        THEN [st EXCEPT !.view = Undo(st.view), !.pc = "done",
                        !.outcome = Return(IF p.required THEN None ELSE GetDefault(p))]
        ELSE IF r.ok
        THEN [st EXCEPT !.attempts = Append(st.attempts, conv),
                        !.outcome = Return(r.val), !.pc = "done"]
        ELSE [st EXCEPT !.attempts = Append(st.attempts, conv),
                        !.errors = <<r.exc>> \o st.errors,
                        !.idx = st.idx + 1]

\* One pass of `for conv in union_args`: the absence branch undoes and
\* returns, a success returns, a CommandError is appended to errors.
UnionBody(st, args, arg, p) ==
    LET conv == args[st.idx + 1]
        r == RunConstituent(conv, arg)
    IN  IF conv = "NoneType" /\ p.kind # "VAR_POSITIONAL"
        THEN [st EXCEPT !.view = Undo(st.view), !.pc = "done",
                        !.outcome = Return(IF p.required THEN None ELSE GetDefault(p))]
        ELSE IF r.ok
        THEN [st EXCEPT !.attempts = Append(st.attempts, conv),
                        !.outcome = Return(r.val), !.pc = "done"]
        ELSE [st EXCEPT !.attempts = Append(st.attempts, conv),
                        !.errors = Append(st.errors, r.exc),
                        !.idx = st.idx + 1]

UnionState ==
    [view |-> view, pc |-> pc, idx |-> idx, errors |-> errors,
     attempts |-> attempts, outcome |-> outcome]

InitUnion ==
    /\ converter \in [origin : {"Union"}, args : UnionArgs]
    /\ argument \in UnionTokens
    /\ param \in [kind : ParamKinds, required : BOOLEAN]
    /\ view = ViewAfterRead(argument, <<>>)
    /\ pc = "union"
    /\ idx = 0
    /\ errors = <<>>
    /\ attempts = <<>>
    /\ outcome = Idle

IdleRc ==
    /\ converter = [origin |-> "none", args |-> <<>>]
    /\ argument = <<>>
    /\ param = [kind |-> "POSITIONAL_OR_KEYWORD", required |-> TRUE]
    /\ view = IdleView
    /\ pc = "idle"
    /\ idx = 0
    /\ errors = <<>>
    /\ attempts = <<>>
    /\ outcome = Idle

IdleGreedy == result = <<>> /\ nextRead = <<>>

IdleFuzzy == query = <<>> /\ choices = <<>> /\ threshold = <<0, 1>> /\ found = 0

IdleEntity ==
    /\ kind = "none"
    /\ ctx = [guild |-> FALSE, mentions |-> <<>>, ratelimited |-> FALSE, joined |-> FALSE,
              channel |-> FALSE]
    /\ cache = [local |-> <<>>, other |-> <<>>]
    /\ calls = <<>>
    /\ stages = <<>>

IdleLiteral == conversions = <<>>
IdleInstances == instances = <<>> /\ reads = <<>>

\* the loop body of the Union branch, for the next constituent
UnionIterate ==
    /\ pc = "union"
    /\ idx < Len(converter.args)
    /\ LET st == UnionBody(UnionState, converter.args, argument, param) IN
        /\ view' = st.view
        /\ pc' = st.pc
        /\ idx' = st.idx
        /\ errors' = st.errors
        /\ attempts' = st.attempts
        /\ outcome' = st.outcome
    /\ UNCHANGED <<converter, argument, param, greedyVars, fuzzyVars, entityVars, literalVars,
                   instanceVars>>

\* the loop is exhausted: raise BadUnionArgument(param, union_args, errors)
UnionExhausted ==
    /\ pc = "union"
    /\ idx = Len(converter.args)
    /\ outcome' = BadUnionArgument(errors)
    /\ pc' = "done"
    /\ UNCHANGED <<converter, argument, param, view, idx, errors, attempts,
                   greedyVars, fuzzyVars, entityVars, literalVars, instanceVars>>

NextUnion == UnionIterate \/ UnionExhausted

UnionInit == InitUnion /\ IdleGreedy /\ IdleFuzzy /\ IdleEntity /\ IdleLiteral /\ IdleInstances

SpecUnion == UnionInit /\ [][NextUnion]_vars

---------------------------------------------------------------------------
(* Claims about the Union branch *)

\* C1: run_converters on a Union attempts the constituents in declared order,
\* one at a time: the constituents attempted so far are always a prefix of the
\* declared ones, every attempt before the last one failed, and as soon as an
\* attempt succeeds the call is over and returns that attempt's value, so that
\* no constituent after the first success is attempted.
UnionFirstSuccessInOrder ==
    LET n == Len(attempts)
        ok(c) == RunConstituent(c, argument).ok
    IN  /\ n <= Len(converter.args)
        /\ \A i \in 1..n : attempts[i] = converter.args[i]
        /\ \A i \in 1..(n - 1) : ~ok(attempts[i])
        /\ (n > 0 /\ ok(attempts[n])) =>
              /\ pc = "done"
              /\ outcome = Return(RunConstituent(attempts[n], argument).val)
        /\ (pc = "done" /\ outcome.ok /\ view.undos = 0) => (n > 0 /\ ok(attempts[n]))

\* a success after a failure, with a declared constituent left unattempted
UnionFirstSuccessWitness ==
    /\ pc = "done"
    /\ outcome.ok
    /\ view.undos = 0
    /\ Len(attempts) = 2
    /\ Len(converter.args) = 3
    /\ outcome.val = IntVal(42)

\* C2: when the Union loop reaches the absence (NoneType) constituent of a
\* parameter that is not variadic, the call ends there: undo was called exactly
\* once (the cursor is back where the token's read began), no further
\* constituent was attempted, nothing is raised and the earlier errors are not
\* reported, and the value is the parameter's default when it is not required
\* and None when it is.
UnionAbsenceUndoesAndReturnsDefault ==
    LET args == converter.args
        absent(i) == args[i] = "NoneType" /\ param.kind # "VAR_POSITIONAL"
    IN  /\ \A i \in 1..idx : ~absent(i)
        /\ (pc = "done" /\ idx < Len(args) /\ absent(idx + 1)) =>
              /\ view.undos = 1
              /\ view.index = 0
              /\ attempts = SubSeq(args, 1, idx)
              /\ outcome = Return(IF param.required THEN None ELSE DefaultVal)
        /\ view.undos > 0 => (pc = "done" /\ idx < Len(args) /\ absent(idx + 1))

\* Optional[...] whose first constituent failed: the default comes back, the
\* token is pushed back and the collected error is dropped
UnionAbsenceWitness ==
    /\ pc = "done"
    /\ view.undos = 1
    /\ idx >= 1
    /\ errors # <<>>
    /\ ~param.required
    /\ outcome = Return(DefaultVal)

\* C3: when every constituent fails and the absence branch is not taken, the
\* call raises BadUnionArgument, and a BadUnionArgument carries exactly one
\* error per declared constituent, the i-th being the error of the i-th
\* constituent.
UnionAllFailRaisesOrderedErrors ==
    LET args == converter.args
        r(i) == RunConstituent(args[i], argument)
    IN  /\ (pc = "done" /\ outcome.exc.type = "BadUnionArgument") =>
              /\ Len(outcome.errors) = Len(args)
              /\ \A i \in 1..Len(args) : ~r(i).ok /\ outcome.errors[i] = r(i).exc
        /\ (pc = "done" /\ view.undos = 0 /\ \A i \in 1..Len(args) : ~r(i).ok) =>
              outcome.exc.type = "BadUnionArgument"

\* three constituents of a variadic parameter, NoneType among them, all failing
UnionAllFailWitness ==
    /\ pc = "done"
    /\ outcome.exc.type = "BadUnionArgument"
    /\ Len(outcome.errors) = 3
    /\ outcome.errors[1].type = "BadBoolArgument"
    /\ outcome.errors[2] = BadArgument("NoneType")
    /\ outcome.errors[3] = BadArgument("int")

---------------------------------------------------------------------------
(* RoleConverter: the fuzzy search *)

Min2(a, b) == IF a <= b THEN a ELSE b
Max2(a, b) == IF a >= b THEN a ELSE b

\* A bug the distance claim must detect: a substitution is charged also when
\* the two characters are equal.
RECURSIVE LevRowAlwaysSubstitutes(_, _, _, _, _)
LevRowAlwaysSubstitutes(previous_row, current_row, c1, s2, j) ==
    IF j > Len(s2) THEN current_row
    ELSE LET insertions == previous_row[j + 1] + 1
             deletions == current_row[j] + 1
             substitutions == previous_row[j] + 1
             appended == Append(current_row,
                                Min2(insertions, Min2(deletions, substitutions)))
         IN  CHOOSE row \in {LevRowAlwaysSubstitutes(previous_row, r, c1, s2, j + 1) :
                               r \in {appended}} : TRUE

\* the inner loop of levenshtein_distance: current_row after the cells for
\* s2[j..] have been appended (each row is bound to its value before the next
\* iteration uses it)
RECURSIVE LevRow(_, _, _, _, _)
LevRow(previous_row, current_row, c1, s2, j) ==
    IF j > Len(s2) THEN current_row
    ELSE LET insertions == previous_row[j + 1] + 1
             deletions == current_row[j] + 1
             substitutions == previous_row[j] + (IF c1 # s2[j] THEN 1 ELSE 0)
             appended == Append(current_row,
                                Min2(insertions, Min2(deletions, substitutions)))
         IN  CHOOSE row \in {LevRow(previous_row, r, c1, s2, j + 1) : r \in {appended}} :
                TRUE

\* the outer loop of levenshtein_distance: the last row after the iterations
\* for s1[lo..hi], run as two halves one after the other
RECURSIVE LevRows(_, _, _, _, _)
LevRows(previous_row, s1, s2, lo, hi) ==
    IF lo > hi THEN previous_row
    ELSE IF lo = hi THEN LevRow(previous_row, <<lo>>, s1[lo], s2, 1)
    ELSE CHOOSE last \in {LevRows(r, s1, s2, m + 1, hi) :
                             m \in {(lo + hi) \div 2},
                             r \in {LevRows(previous_row, s1, s2, lo, (lo + hi) \div 2)}} :
            TRUE

\* RoleConverter.levenshtein_distance
RECURSIVE LevenshteinDistance(_, _)
LevenshteinDistance(s1, s2) ==
    IF Len(s1) < Len(s2) THEN LevenshteinDistance(s2, s1)
    ELSE IF s2 = <<>> THEN Len(s1)
    ELSE LET last == LevRows([j \in 1..(Len(s2) + 1) |-> j - 1], s1, s2, 1, Len(s1))
         IN  last[Len(last)]

\* RoleConverter.normalized_levenshtein: distance / max_len as the fraction
\* <<distance, max_len>>
NormalizedLevenshtein(s1, s2) ==
    <<LevenshteinDistance(s1, s2), Max2(Len(s1), Len(s2))>>

\* comparison of two fractions with denominators >= 0; <<1, 0>> is float('inf')
FracLess(a, b) == a[1] * b[2] < b[1] * a[2]
FracLeq(a, b) == a[1] * b[2] <= b[1] * a[2]
Infinity == <<1, 0>>

Whitespace == {" "}

\* str.split(): the maximal runs of non-whitespace characters, as a set
SplitWords(s) ==
    LET starts == {a \in 1..Len(s) :
                      s[a] \notin Whitespace /\ (a = 1 \/ s[a - 1] \in Whitespace)}
        ends == {b \in 1..Len(s) :
                    s[b] \notin Whitespace /\ (b = Len(s) \/ s[b + 1] \in Whitespace)}
    IN  {SubSeq(s, a, CHOOSE b \in ends : b >= a /\ \A c \in ends : c >= a => b <= c) :
            a \in starts}

\* RoleConverter.word_match_score
WordMatchScore(q, choice) ==
    Cardinality(SplitWords(Lower(q)) \cap SplitWords(Lower(choice)))

\* `sub in s` for strings
Contains(sub, s) ==
    \E k \in 0..(Len(s) - Len(sub)) : SubSeq(s, k + 1, k + Len(sub)) = sub

\* the locals of fuzzy_search before the loop
FuzzyStart ==
    [best_match |-> 0, best_score |-> -1, min_distance |-> Infinity, returned |-> 0]

\* A bug the ranking claim must detect: a tie on score and distance replaces
\* the best match, so the latest candidate of a full tie wins.
FuzzyBodyLatestTie(st, q, names, i) ==
    LET query_lower == Lower(q)
        choice_name == Lower(names[i])
        score == WordMatchScore(query_lower, choice_name)
        distance == NormalizedLevenshtein(query_lower, choice_name)
    IN  IF query_lower = choice_name THEN [st EXCEPT !.returned = i]
        ELSE IF Contains(query_lower, choice_name) THEN [st EXCEPT !.returned = i]
        ELSE IF score > st.best_score
                \/ (score = st.best_score /\ FracLeq(distance, st.min_distance))
        THEN [st EXCEPT !.best_score = score, !.min_distance = distance,
                        !.best_match = i]
        ELSE st

\* One pass of `for choice in choices` of fuzzy_search, for the i-th choice
FuzzyBody(st, q, names, i) ==
    LET query_lower == Lower(q)
        choice_name == Lower(names[i])
        score == WordMatchScore(query_lower, choice_name)
        distance == NormalizedLevenshtein(query_lower, choice_name)
    IN  IF query_lower = choice_name THEN [st EXCEPT !.returned = i]
        ELSE IF Contains(query_lower, choice_name) THEN [st EXCEPT !.returned = i]
        ELSE IF score > st.best_score
                \/ (score = st.best_score /\ FracLess(distance, st.min_distance))
        THEN [st EXCEPT !.best_score = score, !.min_distance = distance,
                        !.best_match = i]
        ELSE st

RECURSIVE FuzzyLoop(_, _, _, _)
FuzzyLoop(st, q, names, i) ==
    IF i > Len(names) \/ st.returned # 0 THEN st
    ELSE FuzzyLoop(FuzzyBody(st, q, names, i), q, names, i + 1)

\* the search with the best candidate held to half the longer length, whatever
\* threshold is passed
FuzzySearchHalfThreshold(q, names, thr) ==
    LET st == FuzzyLoop(FuzzyStart, q, names, 1) IN
    IF st.returned # 0 THEN st.returned
    ELSE IF st.best_match # 0 /\ FracLeq(st.min_distance, <<1, 2>>) THEN st.best_match
    ELSE 0

\* RoleConverter.fuzzy_search: the index of the returned choice, 0 for None
FuzzySearch(q, names, thr) ==
    LET st == FuzzyLoop(FuzzyStart, q, names, 1) IN
    IF st.returned # 0 THEN st.returned
    ELSE IF st.best_match # 0 /\ FracLeq(st.min_distance, thr) THEN st.best_match
    ELSE 0

MaxChoices == 3

RoleNames ==
    {<<"m","o","d">>, <<"M","o","d","s">>, <<"m","a","d">>, <<"m","u","d">>,
     <<"h","i"," ","m","o","d">>, <<"u","p"," ","H","i">>}

Queries == {<<"M","O","D">>, <<"m","e","d">>, <<"h","i"," ","a","l","l">>}

Thresholds == {<<0, 1>>, <<1, 2>>, <<3, 1>>}

NotSearched == -1

InitFuzzy ==
    /\ query \in Queries
    /\ choices \in UNION {[1..n -> RoleNames] : n \in 0..MaxChoices}
    /\ threshold \in Thresholds
    /\ found = NotSearched

\* a call of fuzzy_search(query, choices, threshold)
FuzzySearchCall ==
    /\ found = NotSearched
    /\ found' = FuzzySearch(query, choices, threshold)
    /\ UNCHANGED <<query, choices, threshold, rcVars, greedyVars, entityVars, literalVars,
                   instanceVars>>

NextFuzzy == FuzzySearchCall

FuzzyInit == InitFuzzy /\ IdleRc /\ IdleGreedy /\ IdleEntity /\ IdleLiteral /\ IdleInstances

SpecFuzzy == FuzzyInit /\ [][NextFuzzy]_vars

---------------------------------------------------------------------------
(* Claims about the fuzzy search *)

EqualsQuery(i) == Lower(choices[i]) = Lower(query)
ContainsQuery(i) == Contains(Lower(query), Lower(choices[i]))

\* C9: exact case-insensitive equality takes precedence over substring
\* containment: if some candidate's name equals the query case-insensitively,
\* fuzzy_search returns a candidate whose name equals the query, whatever the
\* order of the candidates.
FuzzyExactBeforeSubstring ==
    (found # NotSearched /\ \E i \in 1..Len(choices) : EqualsQuery(i)) =>
        (found # 0 /\ EqualsQuery(found))

\* the candidate that is maximal under (higher word score, then lower
\* distance, then earlier position), given every candidate's score and distance
RankedFirst(score, dist) ==
    LET n == Len(score)
        beats(i, j) == \/ score[i] > score[j]
                       \/ score[i] = score[j] /\ FracLess(dist[i], dist[j])
                       \/ score[i] = score[j] /\ ~FracLess(dist[j], dist[i]) /\ i <= j
    IN  CHOOSE i \in 1..n : \A j \in 1..n : beats(i, j)

FuzzyExpected(score, dist, thr) ==
    IF Len(score) = 0 THEN 0
    ELSE IF FracLeq(dist[RankedFirst(score, dist)], thr) THEN RankedFirst(score, dist)
    ELSE 0

\* C10: when no candidate equals or contains the query, fuzzy_search returns
\* the candidate that is maximal under (higher word score, then lower
\* normalized distance, then earlier position) if and only if that candidate's
\* normalized distance is <= threshold, and None otherwise, also for an empty
\* candidate list.
FuzzyBestWithinThreshold ==
    (found # NotSearched /\ \A i \in 1..Len(choices) : ~ContainsQuery(i)) =>
        \A score \in {[i \in 1..Len(choices) |->
                          WordMatchScore(Lower(query), Lower(choices[i]))]} :
        \A dist \in {[i \in 1..Len(choices) |->
                          NormalizedLevenshtein(Lower(query), Lower(choices[i]))]} :
            found = FuzzyExpected(score, dist, threshold)

\* a full tie between two candidates that a third, later one does not beat:
\* the earliest is returned
FuzzyBestTieWitness ==
    /\ found = 1
    /\ Len(choices) = 3
    /\ query = <<"m","e","d">>
    /\ choices[1] = <<"m","u","d">>
    /\ choices[2] = <<"m","a","d">>
    /\ threshold = <<1, 2>>

---------------------------------------------------------------------------
(* The Greedy repetition of an inner type *)

MaxTokens == 4

\* Greedy[str] and Greedy[None] are rejected by Greedy.__class_getitem__
GreedyTypes == {"int", "bool"}

GreedyTokens == {<<"1">>, <<"2">>, <<"3">>, <<"a", "b", "c">>, <<"Y", "e", "s">>}

ListVal(s) == [kind |-> "list", val |-> s]

GreedyState == [view |-> view, pc |-> pc, result |-> result, attempts |-> attempts,
                outcome |-> outcome]

\* One pass of the repetition: read the next token and convert it to the inner
\* type; a success is appended, a failure undoes the read and ends the
\* repetition with the accumulated sequence; so does the end of the input.
GreedyBody(st, conv) ==
    IF st.view.index >= Len(st.view.buffer)
    THEN [st EXCEPT !.pc = "next_param", !.outcome = Return(ListVal(st.result))]
    ELSE LET read == ReadToken(st.view)
             token == read.buffer[read.index]
             r == RunConstituent(conv, token)
         IN  IF r.ok
             THEN [st EXCEPT !.view = read,
                             !.attempts = Append(st.attempts, token),
                             !.result = Append(st.result, r.val)]
             ELSE [st EXCEPT !.view = Undo(read),
                             !.attempts = Append(st.attempts, token),
                             !.pc = "next_param",
                             !.outcome = Return(ListVal(st.result))]

InitGreedy ==
    /\ converter \in [origin : {"Greedy"}, args : {<<t>> : t \in GreedyTypes}]
    /\ argument = <<>>
    /\ param = [kind |-> "POSITIONAL_OR_KEYWORD", required |-> TRUE]
    /\ view \in [buffer : UNION {[1..n -> GreedyTokens] : n \in 0..MaxTokens},
                 index : {0}, previous : {0}, undos : {0}]
    /\ pc = "greedy"
    /\ idx = 0
    /\ errors = <<>>
    /\ attempts = <<>>
    /\ outcome = Idle
    /\ result = <<>>
    /\ nextRead = <<>>

\* the repetition reads and converts one more token, or ends
GreedyStep ==
    /\ pc = "greedy"
    /\ LET st == GreedyBody(GreedyState, converter.args[1]) IN
        /\ view' = st.view
        /\ pc' = st.pc
        /\ result' = st.result
        /\ attempts' = st.attempts
        /\ outcome' = st.outcome
    /\ UNCHANGED <<converter, argument, param, idx, errors, nextRead, fuzzyVars,
                   entityVars, literalVars, instanceVars>>

\* the following parameter reads its token
NextParamRead ==
    /\ pc = "next_param"
    /\ view.index < Len(view.buffer)
    /\ view' = ReadToken(view)
    /\ nextRead' = <<view'.buffer[view'.index]>>
    /\ pc' = "done"
    /\ UNCHANGED <<converter, argument, param, idx, errors, attempts, outcome,
                   result, fuzzyVars, entityVars, literalVars, instanceVars>>

NextGreedy == GreedyStep \/ NextParamRead

GreedyInit == InitGreedy /\ IdleFuzzy /\ IdleEntity /\ IdleLiteral /\ IdleInstances

SpecGreedy == GreedyInit /\ [][NextGreedy]_vars

---------------------------------------------------------------------------
(* Claims about Greedy *)

\* whether a token converts to the inner type, and to what
ConvertsTo(conv, token) ==
    IF conv = "int" THEN IntCall(token).ok
    ELSE Lower(token) \in TruthyWords \cup FalsyWords

ValueAs(conv, token) ==
    IF conv = "int" THEN IntVal(IntCall(token).val)
    ELSE BoolVal(Lower(token) \in TruthyWords)

\* the length of the longest prefix of the tokens that all convert
LongestPrefix(conv, tokens) ==
    CHOOSE k \in 0..Len(tokens) :
        /\ \A i \in 1..k : ConvertsTo(conv, tokens[i])
        /\ k = Len(tokens) \/ ~ConvertsTo(conv, tokens[k + 1])

---------------------------------------------------------------------------
(* Entity converters: the patterns *)

IdMinDigits == 15
IdMaxDigits == 20

NoMatch == <<>>
Matched(group) == <<group>>

IsIdDigits(s) == Len(s) >= IdMinDigits /\ Len(s) <= IdMaxDigits /\ AllDigits(s)

\* IDConverter._get_id_match: _ID_REGEX.match(argument), group 1 when it matches
IdMatch(arg) == IF IsIdDigits(arg) THEN Matched(arg) ELSE NoMatch

StartsWith(s, prefix) ==
    Len(s) >= Len(prefix) /\ SubSeq(s, 1, Len(prefix)) = prefix

\* re.match(r'<SIGIL([0-9]{15,20})>$', argument) for one of the sigils
MentionMatch(sigils, arg) ==
    LET hits == {p \in sigils :
                    /\ StartsWith(arg, p)
                    /\ Len(arg) > Len(p) + 1
                    /\ arg[Len(arg)] = ">"
                    /\ IsIdDigits(SubSeq(arg, Len(p) + 1, Len(arg) - 1))}
    IN  IF hits = {} THEN NoMatch
        ELSE LET p == CHOOSE q \in hits : TRUE
             IN  Matched(SubSeq(arg, Len(p) + 1, Len(arg) - 1))

UserSigils == {<<"<", "@">>, <<"<", "@", "!">>}
ChannelSigils == {<<"<", "#">>}
RoleSigils == {<<"<", "@", "&">>}

\* the parts of s between the separators
Split(s, sep) ==
    LET seps == {i \in 1..Len(s) : s[i] = sep}
        before(i) == Cardinality({j \in seps : j < i})
        nth(k) == CHOOSE i \in seps : before(i) = k - 1
        n == Cardinality(seps)
    IN  [k \in 1..(n + 1) |->
            SubSeq(s, IF k = 1 THEN 1 ELSE nth(k - 1) + 1,
                      IF k = n + 1 THEN Len(s) ELSE nth(k) - 1)]

EmojiNameChars ==
    DigitChars \cup {"_"} \cup
    {"a","b","c","d","e","f","g","h","i","j","k","l","m","n","o","p","q","r","s","t",
     "u","v","w","x","y","z"} \cup
    {"A","B","C","D","E","F","G","H","I","J","K","L","M","N","O","P","Q","R","S","T",
     "U","V","W","X","Y","Z"}

EmojiNameMax == 32

\* re.match(r'<a?:[a-zA-Z0-9\_]{1,32}:([0-9]{15,20})>$', argument)
EmojiMatch(arg) ==
    LET parts == Split(arg, ":") IN
    IF /\ Len(parts) = 3
       /\ parts[1] \in {<<"<">>, <<"<", "a">>}
       /\ Len(parts[2]) >= 1 /\ Len(parts[2]) <= EmojiNameMax
       /\ \A i \in 1..Len(parts[2]) : parts[2][i] \in EmojiNameChars
       /\ Len(parts[3]) > 1
       /\ parts[3][Len(parts[3])] = ">"
       /\ IsIdDigits(SubSeq(parts[3], 1, Len(parts[3]) - 1))
    THEN Matched(SubSeq(parts[3], 1, Len(parts[3]) - 1))
    ELSE NoMatch

UrlSchemes == {<<"h","t","t","p",":","/","/">>, <<"h","t","t","p","s",":","/","/">>}
UrlSubdomains == {<<>>, <<"p","t","b",".">>, <<"c","a","n","a","r","y",".">>,
                  <<"w","w","w",".">>}
UrlHosts == {<<"d","i","s","c","o","r","d">>, <<"d","i","s","c","o","r","d","a","p","p">>}
UrlPath == <<".","c","o","m","/","c","h","a","n","n","e","l","s","/">>

\* https?://(?:(?:ptb|canary|www)\.)?discord(?:app)?\.com/channels/
UrlPrefixes == {s \o d \o h \o UrlPath : s \in UrlSchemes, d \in UrlSubdomains, h \in UrlHosts}

AtMe == <<"@", "m", "e">>

\* what follows channels/ in a link, split at the slashes, when the token is a link
UrlParts(arg) ==
    LET hits == {p \in UrlPrefixes : StartsWith(arg, p)} IN
    IF hits = {} THEN <<>>
    ELSE LET p == CHOOSE q \in hits : TRUE
         IN  Split(SubSeq(arg, Len(p) + 1, Len(arg)), "/")

\* GuildChannelConverter._parse_from_url: guild or @me, the channel, and
\* optionally a message and a closing slash; group 1 is the channel
ChannelUrlMatch(arg) ==
    LET parts == UrlParts(arg) IN
    IF /\ Len(parts) \in {2, 3, 4}
       /\ IsIdDigits(parts[1]) \/ parts[1] = AtMe
       /\ IsIdDigits(parts[2])
       /\ Len(parts) >= 3 => IsIdDigits(parts[3])
       /\ Len(parts) = 4 => parts[4] = <<>>
    THEN Matched(parts[2])
    ELSE NoMatch

\* PartialMessageConverter._get_id_matches: "channel-message", "message" or a
\* message link; the message_id group when one matches
MessageMatch(arg) ==
    LET ids == Split(arg, "-")
        parts == UrlParts(arg)
    IN  IF Len(ids) = 1 /\ IsIdDigits(ids[1]) THEN Matched(ids[1])
        ELSE IF Len(ids) = 2 /\ IsIdDigits(ids[1]) /\ IsIdDigits(ids[2]) THEN Matched(ids[2])
        ELSE IF /\ Len(parts) \in {3, 4}
                /\ IsIdDigits(parts[1]) \/ parts[1] = AtMe
                /\ IsIdDigits(parts[2])
                /\ IsIdDigits(parts[3])
                /\ Len(parts) = 4 => parts[4] = <<>>
        THEN Matched(parts[3])
        ELSE NoMatch

\* int(match.group(1)): the decimal numeral without its leading zeros
RECURSIVE ParseId(_)
ParseId(digits) ==
    IF Len(digits) > 1 /\ Head(digits) = "0" THEN ParseId(Tail(digits)) ELSE digits

\* match = A or B: the first pattern that matches
OrMatch(a, b) == IF a # NoMatch THEN a ELSE b

---------------------------------------------------------------------------
(* Entity converters: the caches and the lookups *)

NoEntity == [id |-> <<>>, name |-> <<>>]
EntityVal(e) == [kind |-> "entity", val |-> e]

\* get_member, get_channel, get_role, ...: the cached entity with this id
FindById(list, id) ==
    LET hits == {i \in 1..Len(list) : list[i].id = id} IN
    IF hits = {} THEN NoEntity ELSE list[CHOOSE i \in hits : \A j \in hits : i <= j]

\* discord.utils.get(iterable, name=argument), get_member_named: the first
\* entity whose name is the argument
FindByName(list, name) ==
    LET hits == {i \in 1..Len(list) : list[i].name = name} IN
    IF hits = {} THEN NoEntity ELSE list[CHOOSE i \in hits : \A j \in hits : i <= j]

\* a or b on optional entities
OrEntity(a, b) == IF a # NoEntity THEN a ELSE b

\* getattr(guild, getter)(argument)
GuildGet(guild, getter, key) ==
    IF getter = "get_member_named" THEN FindByName(guild, key) ELSE FindById(guild, key)

\* _get_from_guilds: the first guild whose getter finds something
RECURSIVE GetFromGuilds(_, _, _, _)
GetFromGuilds(guilds, getter, key, i) ==
    IF i > Len(guilds) THEN NoEntity
    ELSE IF GuildGet(guilds[i], getter, key) # NoEntity
    THEN GuildGet(guilds[i], getter, key)
    ELSE GetFromGuilds(guilds, getter, key, i + 1)

\* the client-wide cache: the context guild's entities and the others'
Everywhere(ch) == ch.local \o ch.other

\* A bug the cache claim must detect: a member already cached is added again.
AddMemberAppends(list, member) == Append(list, member)

\* guild._add_member(member): self._members[member.id] = member
AddMember(list, member) ==
    IF \E i \in 1..Len(list) : list[i].id = member.id
    THEN [i \in 1..Len(list) |-> IF list[i].id = member.id THEN member ELSE list[i]]
    ELSE Append(list, member)

NotFound(type, conv, arg) == Exc(type, conv, arg, "")

\* the CommandError subclasses the converters raise
CommandErrors ==
    {"BadArgument", "BadBoolArgument", "BadUnionArgument", "MemberNotFound",
     "UserNotFound", "MessageNotFound", "ChannelNotFound", "ChannelNotReadable",
     "GuildNotFound", "RoleNotFound", "EmojiNotFound", "NoPrivateMessage",
     "RangeError", "BadLiteralArgument"}

\* _actual_conversion around converter().convert(ctx, argument): a CommandError
\* is re-raised, any other exception is wrapped in ConversionError
ConverterCall(conv, out) ==
    IF out.ok \/ out.exc.type \in CommandErrors THEN out
    ELSE Raise(Exc("ConversionError", conv, <<>>, out.exc.type))

NoCall == <<>>
Call(op, by, key) == <<[op |-> op, by |-> by, key |-> key, reply |-> "pending"]>>

\* a convert() that ran to its end, and one suspended in a remote call
Finished(out, stage) == [out |-> out, stages |-> stage, call |-> NoCall]
Suspended(stage, call) == [out |-> Idle, stages |-> stage, call |-> call]

FetchedName == <<"f", "e", "t", "c", "h", "e", "d">>
FetchedId == <<"7">>

\* what the remote side hands back for a call that finds its target
Fetched(call) ==
    IF call.by = "id" THEN [id |-> call.key, name |-> FetchedName]
    ELSE [id |-> FetchedId, name |-> call.key]

\* the responses of a remote call: an HTTP fetch finds its target or raises
\* NotFound, Forbidden or another HTTPException; a gateway query returns the
\* members it found, possibly none
Responses(call) ==
    IF call.op = "query_members" THEN {"found", "empty"}
    ELSE {"found", "not_found", "forbidden", "http_error"}

---------------------------------------------------------------------------
(* Entity converters: convert() *)

\* A bug the remote-call claim must detect: the gateway is queried although
\* the cache lookup found the member.
MemberConvertQueriesOnHit(arg, cx, ch) ==
    LET match == OrMatch(IdMatch(arg), MentionMatch(UserSigils, arg)) IN
    IF ~cx.guild
    THEN Finished(Raise(NotFound("MemberNotFound", "Member", arg)),
                  IF match = NoMatch THEN <<"name">> ELSE <<"id">>)
    ELSE IF match = NoMatch
    THEN Suspended(<<"name">>, Call("query_members", "name", arg))
    ELSE Suspended(<<"id">>,
                   Call(IF cx.ratelimited THEN "fetch_member" ELSE "query_members",
                        "id", ParseId(match[1])))

\* MemberConverter.convert up to its remote call
MemberConvert(arg, cx, ch) ==
    LET match == OrMatch(IdMatch(arg), MentionMatch(UserSigils, arg))
        guilds == <<ch.local, ch.other>>
    IN  IF match = NoMatch
        THEN LET found_ == IF cx.guild THEN FindByName(ch.local, arg)
                           ELSE GetFromGuilds(guilds, "get_member_named", arg, 1)
             IN  IF found_ # NoEntity THEN Finished(Return(EntityVal(found_)), <<"name">>)
                 ELSE IF ~cx.guild
                 THEN Finished(Raise(NotFound("MemberNotFound", "Member", arg)), <<"name">>)
                 ELSE Suspended(<<"name">>, Call("query_members", "name", arg))
        ELSE LET user_id == ParseId(match[1])
                 found_ == IF cx.guild
                           THEN OrEntity(FindById(ch.local, user_id),
                                         FindById(cx.mentions, user_id))
                           ELSE GetFromGuilds(guilds, "get_member", user_id, 1)
             IN  IF found_ # NoEntity THEN Finished(Return(EntityVal(found_)), <<"id">>)
                 ELSE IF ~cx.guild
                 THEN Finished(Raise(NotFound("MemberNotFound", "Member", arg)), <<"id">>)
                 ELSE Suspended(<<"id">>,
                                Call(IF cx.ratelimited THEN "fetch_member"
                                     ELSE "query_members", "id", user_id))

\* A bug the repetition claim must detect: a member the remote side did not
\* find is cached as a placeholder.
MemberResumeCachesMiss(call, resp, arg, cx, ch) ==
    IF resp = "found"
    THEN [out |-> Return(EntityVal(Fetched(call))),
          cache |-> IF cx.joined
                    THEN [ch EXCEPT !.local = AddMember(ch.local, Fetched(call))]
                    ELSE ch]
    ELSE [out |-> Raise(NotFound("MemberNotFound", "Member", arg)),
          cache |-> [ch EXCEPT !.local = AddMember(ch.local, Fetched(call))]]

\* MemberConverter: query_member_by_id / query_member_named once the remote
\* side has answered, and the end of convert
MemberResume(call, resp, arg, cx, ch) ==
    IF resp = "found"
    THEN [out |-> Return(EntityVal(Fetched(call))),
          cache |-> IF cx.joined
                    THEN [ch EXCEPT !.local = AddMember(ch.local, Fetched(call))]
                    ELSE ch]
    ELSE [out |-> Raise(NotFound("MemberNotFound", "Member", arg)), cache |-> ch]

\* UserConverter.convert up to its remote call
UserConvert(arg, cx, ch) ==
    LET match == OrMatch(IdMatch(arg), MentionMatch(UserSigils, arg)) IN
    IF match # NoMatch
    THEN LET user_id == ParseId(match[1])
             found_ == OrEntity(FindById(Everywhere(ch), user_id),
                                FindById(cx.mentions, user_id))
         IN  IF found_ # NoEntity THEN Finished(Return(EntityVal(found_)), <<"id">>)
             ELSE Suspended(<<"id">>, Call("fetch_user", "id", user_id))
    ELSE LET found_ == FindByName(Everywhere(ch), arg)
         IN  IF found_ # NoEntity THEN Finished(Return(EntityVal(found_)), <<"name">>)
             ELSE Finished(Raise(NotFound("UserNotFound", "User", arg)), <<"name">>)

\* A bug the remote-failure claim must detect: only discord.NotFound is
\* caught, any other HTTPException leaves convert().
UserResumeNotFoundOnly(call, resp, arg, cx, ch) ==
    [cache |-> ch,
     out |-> CASE resp = "found" -> Return(EntityVal(Fetched(call)))
               [] resp = "not_found" -> Raise(NotFound("UserNotFound", "User", arg))
               [] OTHER -> Raise(Exc("HTTPException", "User", <<>>, ""))]

\* UserConverter.convert after fetch_user: any HTTPException is UserNotFound
UserResume(call, resp, arg, cx, ch) ==
    IF resp = "found" THEN [out |-> Return(EntityVal(Fetched(call))), cache |-> ch]
    ELSE [out |-> Raise(NotFound("UserNotFound", "User", arg)), cache |-> ch]

CtxChannelId == <<"c", "t", "x">>

\* the channel_id _get_id_matches returns: the token's, else ctx.channel.id
MessageChannelId(arg) ==
    LET ids == Split(arg, "-")
        parts == UrlParts(arg)
    IN  IF Len(ids) = 2 THEN ParseId(ids[1])
        ELSE IF Len(parts) >= 3 THEN ParseId(parts[2])
        ELSE CtxChannelId

\* MessageConverter.convert up to its remote call
MessageConvert(arg, cx, ch) ==
    LET match == MessageMatch(arg) IN
    IF match = NoMatch
    THEN Finished(Raise(NotFound("MessageNotFound", "Message", arg)), <<>>)
    ELSE LET message_id == ParseId(match[1])
             message == FindById(Everywhere(ch), message_id)
         IN  IF message # NoEntity THEN Finished(Return(EntityVal(message)), <<"id">>)
             ELSE IF ~cx.channel
             THEN Finished(Raise(NotFound("ChannelNotFound", "Message",
                                          MessageChannelId(arg))), <<"id">>)
             ELSE Suspended(<<"id">>, Call("fetch_message", "id", message_id))

\* MessageConverter.convert after channel.fetch_message
MessageResume(call, resp, arg, cx, ch) ==
    [cache |-> ch,
     out |-> CASE resp = "found" -> Return(EntityVal(Fetched(call)))
               [] resp = "not_found" -> Raise(NotFound("MessageNotFound", "Message", arg))
               [] resp = "forbidden" ->
                    Raise(NotFound("ChannelNotReadable", "Message", MessageChannelId(arg)))
               [] OTHER -> Raise(Exc("HTTPException", "Message", <<>>, ""))]

\* A bug the ID-precedence claim must detect: the name is looked up first.
ChannelConvertNameFirst(arg, cx, ch) ==
    LET match == OrMatch(OrMatch(IdMatch(arg), MentionMatch(ChannelSigils, arg)),
                         ChannelUrlMatch(arg))
        guilds == <<ch.local, ch.other>>
        named == IF cx.guild THEN FindByName(ch.local, arg)
                 ELSE FindByName(Everywhere(ch), arg)
    IN  IF match = NoMatch \/ named # NoEntity
        THEN IF named # NoEntity THEN Finished(Return(EntityVal(named)), <<"name">>)
             ELSE Finished(Raise(NotFound("ChannelNotFound", "GuildChannel", arg)),
                           <<"name">>)
        ELSE LET channel_id == ParseId(match[1])
                 found_ == IF cx.guild THEN FindById(ch.local, channel_id)
                           ELSE GetFromGuilds(guilds, "get_channel", channel_id, 1)
             IN  IF found_ # NoEntity
                 THEN Finished(Return(EntityVal(found_)), <<"name", "id">>)
                 ELSE Finished(Raise(NotFound("ChannelNotFound", "GuildChannel", arg)),
                               <<"name", "id">>)

\* GuildChannelConverter._resolve_channel
ChannelConvert(arg, cx, ch) ==
    LET match == OrMatch(OrMatch(IdMatch(arg), MentionMatch(ChannelSigils, arg)),
                         ChannelUrlMatch(arg))
        guilds == <<ch.local, ch.other>>
    IN  IF match = NoMatch
        THEN LET found_ == IF cx.guild THEN FindByName(ch.local, arg)
                           ELSE FindByName(Everywhere(ch), arg)
             IN  IF found_ # NoEntity THEN Finished(Return(EntityVal(found_)), <<"name">>)
                 ELSE Finished(Raise(NotFound("ChannelNotFound", "GuildChannel", arg)),
                               <<"name">>)
        ELSE LET channel_id == ParseId(match[1])
                 found_ == IF cx.guild THEN FindById(ch.local, channel_id)
                           ELSE GetFromGuilds(guilds, "get_channel", channel_id, 1)
             IN  IF found_ # NoEntity THEN Finished(Return(EntityVal(found_)), <<"id">>)
                 ELSE Finished(Raise(NotFound("ChannelNotFound", "GuildChannel", arg)),
                               <<"id">>)

\* GuildConverter.convert
GuildConvert(arg, cx, ch) ==
    LET match == IdMatch(arg)
        byId == IF match # NoMatch THEN FindById(Everywhere(ch), ParseId(match[1]))
                ELSE NoEntity
        idStage == IF match # NoMatch THEN <<"id">> ELSE <<>>
        named == FindByName(Everywhere(ch), arg)
    IN  IF byId # NoEntity THEN Finished(Return(EntityVal(byId)), idStage)
        ELSE IF named # NoEntity
        THEN Finished(Return(EntityVal(named)), Append(idStage, "name"))
        ELSE Finished(Raise(NotFound("GuildNotFound", "Guild", arg)),
                      Append(idStage, "name"))

DefaultThreshold == <<3, 1>>

\* A bug the DM claim must detect: the guild is asked for only after the
\* pattern match.
RoleConvertMatchesFirst(arg, cx, ch) ==
    LET match == OrMatch(IdMatch(arg), MentionMatch(RoleSigils, arg))
        idStage == IF match # NoMatch THEN <<"id">> ELSE <<>>
    IN  IF ~cx.guild THEN Finished(Raise(Exc("NoPrivateMessage", "Role", <<>>, "")), idStage)
        ELSE IF match # NoMatch /\ FindById(ch.local, ParseId(match[1])) # NoEntity
        THEN Finished(Return(EntityVal(FindById(ch.local, ParseId(match[1])))), idStage)
        ELSE Finished(Raise(NotFound("RoleNotFound", "Role", arg)), Append(idStage, "fuzzy"))

\* RoleConverter.convert
RoleConvert(arg, cx, ch) ==
    LET match == OrMatch(IdMatch(arg), MentionMatch(RoleSigils, arg))
        byId == IF match # NoMatch THEN FindById(ch.local, ParseId(match[1]))
                ELSE NoEntity
        idStage == IF match # NoMatch THEN <<"id">> ELSE <<>>
        fuzzy == FuzzySearch(arg, [i \in 1..Len(ch.local) |-> ch.local[i].name],
                             DefaultThreshold)
    IN  IF ~cx.guild THEN Finished(Raise(Exc("NoPrivateMessage", "Role", <<>>, "")), <<>>)
        ELSE IF byId # NoEntity THEN Finished(Return(EntityVal(byId)), idStage)
        ELSE IF fuzzy # 0
        THEN Finished(Return(EntityVal(ch.local[fuzzy])), Append(idStage, "fuzzy"))
        ELSE Finished(Raise(NotFound("RoleNotFound", "Role", arg)), Append(idStage, "fuzzy"))

\* EmojiConverter.convert
EmojiConvert(arg, cx, ch) ==
    LET match == OrMatch(IdMatch(arg), EmojiMatch(arg)) IN
    IF match = NoMatch
    THEN LET local_ == IF cx.guild THEN FindByName(ch.local, arg) ELSE NoEntity
             found_ == OrEntity(local_, FindByName(Everywhere(ch), arg))
         IN  IF found_ # NoEntity THEN Finished(Return(EntityVal(found_)), <<"name">>)
             ELSE Finished(Raise(NotFound("EmojiNotFound", "Emoji", arg)), <<"name">>)
    ELSE LET found_ == FindById(Everywhere(ch), ParseId(match[1]))
         IN  IF found_ # NoEntity THEN Finished(Return(EntityVal(found_)), <<"id">>)
             ELSE Finished(Raise(NotFound("EmojiNotFound", "Emoji", arg)), <<"id">>)

Kinds == {"Member", "User", "Message", "GuildChannel", "Guild", "Role", "Emoji"}

\* CONVERTER_MAPPING: the convert of the converter class of a kind
Convert(k, arg, cx, ch) ==
    CASE k = "Member" -> MemberConvert(arg, cx, ch)
      [] k = "User" -> UserConvert(arg, cx, ch)
      [] k = "Message" -> MessageConvert(arg, cx, ch)
      [] k = "GuildChannel" -> ChannelConvert(arg, cx, ch)
      [] k = "Guild" -> GuildConvert(arg, cx, ch)
      [] k = "Role" -> RoleConvert(arg, cx, ch)
      [] k = "Emoji" -> EmojiConvert(arg, cx, ch)

\* the rest of a convert that was suspended in a remote call
Resume(k, call, resp, arg, cx, ch) ==
    CASE k = "Member" -> MemberResume(call, resp, arg, cx, ch)
      [] k = "User" -> UserResume(call, resp, arg, cx, ch)
      [] k = "Message" -> MessageResume(call, resp, arg, cx, ch)

---------------------------------------------------------------------------
(* Entity converters: the states explored and the steps *)

\* snowflakes of 15 digits, the shortest the patterns accept
Snowflake(last) ==
    <<"1", "0", "0", "0", "0", "0", "0", "0", "0", "0", "0", "0", "0", "0", last>>

KnownId == Snowflake("1")
OtherId == Snowflake("2")
UnknownId == Snowflake("9")
ScopeId == Snowflake("5")
Bob == <<"b", "o", "b">>

\* an entity, and one whose name reads as the former's ID
Named == [id |-> KnownId, name |-> Bob]
Numeric == [id |-> OtherId, name |-> KnownId]

ChannelsUrl ==
    <<"h","t","t","p","s",":","/","/">> \o <<"d","i","s","c","o","r","d">> \o UrlPath

EntityTokens ==
    {KnownId, <<"0">> \o KnownId, UnknownId, Bob, <<"1", "2", "3">>,
     <<"<", "@">> \o KnownId \o <<">">>,
     <<"<", "@", "!">> \o UnknownId \o <<">">>,
     <<"<", "#">> \o KnownId \o <<">">>,
     <<"<", "@", "&">> \o KnownId \o <<">">>,
     <<"<", ":", "o", "k", ":">> \o KnownId \o <<">">>,
     ChannelsUrl \o ScopeId \o <<"/">> \o KnownId,
     ChannelsUrl \o AtMe \o <<"/">> \o ScopeId \o <<"/">> \o UnknownId,
     ScopeId \o <<"-">> \o KnownId}

Placements == {"local", "other", "absent"}

Placed(where, pa, pb) ==
    (IF pb = where THEN <<Numeric>> ELSE <<>>) \o (IF pa = where THEN <<Named>> ELSE <<>>)

InitEntity ==
    /\ kind \in Kinds
    /\ argument \in EntityTokens
    /\ \E pa \in Placements, pb \in Placements :
          cache = [local |-> Placed("local", pa, pb), other |-> Placed("other", pa, pb)]
    /\ ctx \in [guild : BOOLEAN,
                mentions : IF kind \in {"Member", "User"} THEN {<<>>, <<Named>>} ELSE {<<>>},
                ratelimited : IF kind = "Member" THEN BOOLEAN ELSE {FALSE},
                joined : IF kind = "Member" THEN BOOLEAN ELSE {FALSE},
                channel : IF kind = "Message" THEN BOOLEAN ELSE {FALSE}]
    /\ calls = <<>>
    /\ stages = <<>>
    /\ pc = "convert"
    /\ outcome = Idle
    /\ converter = [origin |-> "none", args |-> <<>>]
    /\ param = [kind |-> "POSITIONAL_OR_KEYWORD", required |-> TRUE]
    /\ view = IdleView
    /\ idx = 0
    /\ errors = <<>>
    /\ attempts = <<>>

\* _actual_conversion calls converter().convert(ctx, argument), which runs to
\* its end or to its remote call
EntityConvert ==
    /\ pc = "convert"
    /\ \E r \in {Convert(kind, argument, ctx, cache)} :
          /\ stages' = r.stages
          /\ calls' = calls \o r.call
          /\ IF r.call = NoCall
             THEN pc' = "done" /\ outcome' = ConverterCall(kind, r.out)
             ELSE pc' = "awaiting" /\ outcome' = outcome
    /\ UNCHANGED <<converter, argument, param, view, idx, errors, attempts,
                   greedyVars, fuzzyVars, literalVars, kind, ctx, cache, instanceVars>>

\* the remote side answers and convert() runs to its end
RemoteReply ==
    /\ pc = "awaiting"
    /\ \E resp \in Responses(calls[Len(calls)]) :
          \E r \in {Resume(kind, calls[Len(calls)], resp, argument, ctx, cache)} :
             /\ outcome' = ConverterCall(kind, r.out)
             /\ cache' = r.cache
             /\ calls' = [calls EXCEPT ![Len(calls)].reply = resp]
    /\ stages' = Append(stages, "remote")
    /\ pc' = "done"
    /\ UNCHANGED <<converter, argument, param, view, idx, errors, attempts,
                   greedyVars, fuzzyVars, literalVars, kind, ctx, instanceVars>>

NextEntity == EntityConvert \/ RemoteReply

EntityInit == InitEntity /\ IdleGreedy /\ IdleFuzzy /\ IdleLiteral /\ IdleInstances

SpecEntity == EntityInit /\ [][NextEntity]_vars

---------------------------------------------------------------------------
(* Claims about entity resolution *)

InStages(stage) == \E i \in 1..Len(stages) : stages[i] = stage
HasId(list, id) == \E i \in 1..Len(list) : list[i].id = id
Returned(e) == outcome.ok /\ outcome.val = EntityVal(e)
RaisedWith(type, arg) == ~outcome.ok /\ outcome.exc.type = type /\ outcome.exc.arg = arg

\* the entities the ID stage of the converter of this kind looks through
IdStageScope ==
    CASE kind = "Member" ->
            IF ctx.guild THEN cache.local \o ctx.mentions ELSE Everywhere(cache)
      [] kind = "User" -> Everywhere(cache) \o ctx.mentions
      [] kind = "GuildChannel" -> IF ctx.guild THEN cache.local ELSE Everywhere(cache)
      [] kind = "Role" -> IF ctx.guild THEN cache.local ELSE <<>>
      [] OTHER -> Everywhere(cache)

NotFoundTypes ==
    {"MemberNotFound", "UserNotFound", "MessageNotFound", "ChannelNotFound",
     "GuildNotFound", "RoleNotFound", "EmojiNotFound"}

\* the kinds whose converter ends with a lookup by name
NameKinds == {"GuildChannel", "Guild", "Emoji"}

\* C6: a stage that finds nothing proceeds to the next one: when the token
\* matched a pattern and the lookup by that identifier missed, a conversion
\* of a kind with a name lookup fails with its not-found error only after the
\* name lookup has been tried too.
IdMissProceedsToNameLookup ==
    (pc = "done" /\ kind \in NameKinds /\ InStages("id")
        /\ ~outcome.ok /\ outcome.exc.type \in NotFoundTypes)
    => InStages("name")

\* the identifier pattern of the converters that can call the remote side
RemoteKindMatch ==
    IF kind = "Message" THEN MessageMatch(argument)
    ELSE OrMatch(IdMatch(argument), MentionMatch(UserSigils, argument))

KindNotFound ==
    CASE kind = "Member" -> "MemberNotFound"
      [] kind = "User" -> "UserNotFound"
      [] kind = "Message" -> "MessageNotFound"
      [] OTHER -> "none"

RemoteFailed ==
    pc = "done" /\ calls # <<>> /\ calls[Len(calls)].reply # "found"

\* C8 as stated: when the remote call fails, with a not-found response or with
\* any other failure, the conversion fails with the not-found error of its
\* kind carrying the token, and the call is not made again.
RemoteFailureIsKindNotFound ==
    /\ Len(calls) <= 1
    /\ RemoteFailed => RaisedWith(KindNotFound, argument)

\* C8 as amended: the call is never made again. When it fails, the User and
\* Member converters fail with UserNotFound and MemberNotFound carrying the
\* token, whatever the failure (for Member also when the query finds nobody).
\* The Message converter fails with MessageNotFound carrying the token only
\* on a not-found response; on a forbidden response it fails with
\* ChannelNotReadable for the channel, and any other HTTP failure is not
\* caught and reaches the caller as a ConversionError wrapping it.
RemoteFailureByKind ==
    /\ Len(calls) <= 1
    /\ RemoteFailed =>
          LET reply == calls[Len(calls)].reply IN
          CASE kind \in {"Member", "User"} -> RaisedWith(KindNotFound, argument)
            [] kind = "Message" /\ reply = "not_found" ->
                  RaisedWith("MessageNotFound", argument)
            [] kind = "Message" /\ reply = "forbidden" ->
                  RaisedWith("ChannelNotReadable", MessageChannelId(argument))
            [] OTHER ->
                  /\ ~outcome.ok
                  /\ outcome.exc.type = "ConversionError"
                  /\ outcome.exc.cause = "HTTPException"

\* fetch_user fails with an HTTP error other than not-found
RemoteFailureUserWitness ==
    /\ pc = "done"
    /\ kind = "User"
    /\ calls # <<>>
    /\ calls[1].reply = "http_error"
    /\ RaisedWith("UserNotFound", argument)

---------------------------------------------------------------------------
(* levenshtein_distance and normalized_levenshtein called on their own *)

MaxLen == 3
Alphabet == {"a", "b"}
Strings == UNION {[1..n -> Alphabet] : n \in 0..MaxLen}

FracVal(f) == [kind |-> "float", val |-> f]

\* a call of normalized_levenshtein(s1, s2): distance / max_len raises
\* ZeroDivisionError when max_len is 0
NormalizedLevenshteinCall(s1, s2) ==
    IF Max2(Len(s1), Len(s2)) = 0
    THEN Raise(Exc("ZeroDivisionError", "normalized_levenshtein", <<>>, ""))
    ELSE Return(FracVal(NormalizedLevenshtein(s1, s2)))

\* the two arguments are held in query and choices[1]
InitLevenshtein ==
    /\ query \in Strings
    /\ choices \in {<<s>> : s \in Strings}
    /\ threshold = <<0, 1>>
    /\ found = 0
    /\ converter = [origin |-> "none", args |-> <<>>]
    /\ argument = <<>>
    /\ param = [kind |-> "POSITIONAL_OR_KEYWORD", required |-> TRUE]
    /\ view = IdleView
    /\ pc = "call"
    /\ idx = 0
    /\ errors = <<>>
    /\ attempts = <<>>
    /\ outcome = Idle

\* levenshtein_distance(query, choices[1])
LevenshteinCall ==
    /\ pc = "call"
    /\ pc' = "levenshtein_distance"
    /\ outcome' = Return(IntVal(LevenshteinDistance(query, choices[1])))
    /\ UNCHANGED <<converter, argument, param, view, idx, errors, attempts,
                   greedyVars, fuzzyVars, entityVars, literalVars, instanceVars>>

\* normalized_levenshtein(query, choices[1])
NormalizedCall ==
    /\ pc = "call"
    /\ pc' = "normalized_levenshtein"
    /\ outcome' = NormalizedLevenshteinCall(query, choices[1])
    /\ UNCHANGED <<converter, argument, param, view, idx, errors, attempts,
                   greedyVars, fuzzyVars, entityVars, literalVars, instanceVars>>

NextLevenshtein == LevenshteinCall \/ NormalizedCall

LevenshteinInit == InitLevenshtein /\ IdleGreedy /\ IdleEntity /\ IdleLiteral /\ IdleInstances

SpecLevenshtein == LevenshteinInit /\ [][NextLevenshtein]_vars

---------------------------------------------------------------------------
(* Claims about the edit distance *)

\* C11: levenshtein_distance(a, b) equals levenshtein_distance(b, a), and
\* levenshtein_distance(a, a) is 0, for all strings a and b.
LevenshteinSymmetricAndZeroOnEqual ==
    pc = "levenshtein_distance" =>
        /\ outcome.ok
        /\ outcome.val = IntVal(LevenshteinDistance(choices[1], query))
        /\ query = choices[1] => outcome.val = IntVal(0)

\* two different strings of the same length, for which the code does not
\* swap its arguments
LevenshteinSymmetricWitness ==
    /\ pc = "levenshtein_distance"
    /\ query = <<"a", "b", "a">>
    /\ choices = << <<"b", "a", "b">> >>
    /\ outcome.val = IntVal(2)

\* C12: normalized_levenshtein(s1, s2) returns, for every pair of strings and
\* also when one or both are empty, a defined value in [0, 1] that is the edit
\* distance divided by the length of the longer string.
NormalizedLevenshteinDefined ==
    pc = "normalized_levenshtein" =>
        /\ outcome.ok
        /\ outcome.val.kind = "float"
        /\ outcome.val.val[2] > 0
        /\ outcome.val.val[1] >= 0 /\ outcome.val.val[1] <= outcome.val.val[2]
        /\ outcome.val.val[1] = LevenshteinDistance(query, choices[1])
        /\ outcome.val.val[2] = Max2(Len(query), Len(choices[1]))

---------------------------------------------------------------------------
(* run_converters: the Literal branch *)

MaxLiterals == 3

LiteralValues ==
    {IntVal(1), IntVal(2), BoolVal(TRUE), BoolVal(FALSE),
     StrVal(<<"o", "n">>), StrVal(<<"O", "f", "f">>)}

\* typing.Literal keeps its arguments distinct and has at least one
LiteralArgs ==
    {s \in UNION {[1..n -> LiteralValues] : n \in 1..MaxLiterals} :
        \A i, j \in DOMAIN s : i # j => s[i] # s[j]}

LiteralTokens ==
    {<<"1">>, <<"2">>, <<"O", "N">>, <<"o", "f", "f">>, <<"n", "o">>, <<"x">>}

\* type(literal)
TypeOf(literal) == literal.kind

\* the object() stored for a type whose conversion failed: equal to no literal
Sentinel == [kind |-> "object", val |-> 0]

\* raise BadLiteralArgument(param, literal_args, errors, argument)
BadLiteralArgument(literals, errs, arg) ==
    [ok |-> FALSE, val |-> None,
     exc |-> Exc("BadLiteralArgument", "Literal", arg, ""),
     errors |-> errs, literals |-> literals]

\* the comparison of the converted value with the literal, and the return
LiteralCompare(st, value, literal) ==
    IF value.kind = "str" /\ literal.kind = "str"
    THEN IF Lower(value.val) = Lower(literal.val)
         THEN [st EXCEPT !.outcome = Return(literal), !.pc = "done"]
         ELSE [st EXCEPT !.idx = st.idx + 1]
    ELSE IF value = literal
    THEN [st EXCEPT !.outcome = Return(value), !.pc = "done"]
    ELSE [st EXCEPT !.idx = st.idx + 1]

\* A bug the once-per-type claim must detect: a converted value is not kept.
LiteralBodyNoCache(st, args, arg) ==
    LET literal == args[st.idx + 1]
        literal_type == TypeOf(literal)
        r == ActualConversion(literal_type, arg)
        tried == [st EXCEPT !.attempts = Append(st.attempts, literal_type)]
    IN  IF literal_type \in DOMAIN st.conversions
        THEN LiteralCompare(st, st.conversions[literal_type], literal)
        ELSE IF ~r.ok
        THEN [tried EXCEPT !.errors = Append(st.errors, r.exc),
                           !.conversions = (literal_type :> Sentinel) @@ st.conversions,
                           !.idx = st.idx + 1]
        ELSE LiteralCompare(tried, r.val, literal)

\* A bug the matching claim must detect: strings are compared as they are.
LiteralBodyCaseSensitive(st, args, arg) ==
    LET literal == args[st.idx + 1]
        literal_type == TypeOf(literal)
        r == ActualConversion(literal_type, arg)
        tried == [st EXCEPT !.attempts = Append(st.attempts, literal_type)]
        compare(s, value) ==
            IF value = literal THEN [s EXCEPT !.outcome = Return(value), !.pc = "done"]
            ELSE [s EXCEPT !.idx = s.idx + 1]
    IN  IF literal_type \in DOMAIN st.conversions
        THEN compare(st, st.conversions[literal_type])
        ELSE IF ~r.ok
        THEN [tried EXCEPT !.errors = Append(st.errors, r.exc),
                           !.conversions = (literal_type :> Sentinel) @@ st.conversions,
                           !.idx = st.idx + 1]
        ELSE compare([tried EXCEPT !.conversions = (literal_type :> r.val) @@ st.conversions],
                     r.val)

\* A bug the compound-error claim must detect: a failed conversion leaves no
\* entry in conversions, so the next literal of the type fails again.
LiteralBodyNoSentinel(st, args, arg) ==
    LET literal == args[st.idx + 1]
        literal_type == TypeOf(literal)
        r == ActualConversion(literal_type, arg)
        tried == [st EXCEPT !.attempts = Append(st.attempts, literal_type)]
    IN  IF literal_type \in DOMAIN st.conversions
        THEN LiteralCompare(st, st.conversions[literal_type], literal)
        ELSE IF ~r.ok
        THEN [tried EXCEPT !.errors = Append(st.errors, r.exc),
                           !.idx = st.idx + 1]
        ELSE LiteralCompare([tried EXCEPT !.conversions =
                                              (literal_type :> r.val) @@ st.conversions],
                            r.val, literal)

\* One pass of `for literal in literal_args`
LiteralBody(st, args, arg) ==
    LET literal == args[st.idx + 1]
        literal_type == TypeOf(literal)
        r == ActualConversion(literal_type, arg)
        tried == [st EXCEPT !.attempts = Append(st.attempts, literal_type)]
    IN  IF literal_type \in DOMAIN st.conversions
        THEN LiteralCompare(st, st.conversions[literal_type], literal)
        ELSE IF ~r.ok
        THEN [tried EXCEPT !.errors = Append(st.errors, r.exc),
                           !.conversions = (literal_type :> Sentinel) @@ st.conversions,
                           !.idx = st.idx + 1]
        ELSE LiteralCompare([tried EXCEPT !.conversions =
                                              (literal_type :> r.val) @@ st.conversions],
                            r.val, literal)

LiteralState ==
    [pc |-> pc, idx |-> idx, errors |-> errors, attempts |-> attempts,
     outcome |-> outcome, conversions |-> conversions]

InitLiteral ==
    /\ converter \in [origin : {"Literal"}, args : LiteralArgs]
    /\ argument \in LiteralTokens
    /\ param = [kind |-> "POSITIONAL_OR_KEYWORD", required |-> TRUE]
    /\ view = ViewAfterRead(argument, <<>>)
    /\ pc = "literal"
    /\ idx = 0
    /\ errors = <<>>
    /\ attempts = <<>>
    /\ outcome = Idle
    /\ conversions = <<>>

\* the loop body of the Literal branch, for the next literal
LiteralIterate ==
    /\ pc = "literal"
    /\ idx < Len(converter.args)
    /\ \E st \in {LiteralBody(LiteralState, converter.args, argument)} :
        /\ pc' = st.pc
        /\ idx' = st.idx
        /\ errors' = st.errors
        /\ attempts' = st.attempts
        /\ outcome' = st.outcome
        /\ conversions' = st.conversions
    /\ UNCHANGED <<converter, argument, param, view, greedyVars, fuzzyVars, entityVars,
                   instanceVars>>

\* the loop is exhausted: raise BadLiteralArgument
LiteralExhausted ==
    /\ pc = "literal"
    /\ idx = Len(converter.args)
    /\ outcome' = BadLiteralArgument(converter.args, errors, argument)
    /\ pc' = "done"
    /\ UNCHANGED <<converter, argument, param, view, idx, errors, attempts,
                   greedyVars, fuzzyVars, entityVars, literalVars, instanceVars>>

NextLiteral == LiteralIterate \/ LiteralExhausted

LiteralInit == InitLiteral /\ IdleGreedy /\ IdleFuzzy /\ IdleEntity /\ IdleInstances

SpecLiteral == LiteralInit /\ [][NextLiteral]_vars

---------------------------------------------------------------------------
(* Claims about the Literal branch *)

\* C13: for a Literal, the token is converted at most once per runtime type of
\* the literals: no type is handed to _actual_conversion a second time,
\* whether its first conversion succeeded or failed.
LiteralConvertsOncePerType ==
    /\ \A i, j \in DOMAIN attempts : i # j => attempts[i] # attempts[j]
    /\ \A t \in DOMAIN conversions : \E i \in DOMAIN attempts : attempts[i] = t

\* the second int literal is matched without a second conversion
LiteralConvertsOncePerTypeWitness ==
    /\ pc = "done"
    /\ converter.args = <<IntVal(1), StrVal(<<"o", "n">>), IntVal(2)>>
    /\ argument = <<"2">>
    /\ attempts = <<"int", "str">>
    /\ outcome = Return(IntVal(2))

\* the literal matches the token converted to the literal's runtime type
LiteralMatches(literal) ==
    LET r == ActualConversion(TypeOf(literal), argument) IN
    /\ r.ok
    /\ IF literal.kind = "str" THEN Lower(r.val.val) = Lower(literal.val)
       ELSE r.val = literal

\* C14: the literals are examined in declared order and the first one that
\* matches wins: a string literal matches when it equals the converted string
\* case-insensitively, and the declared literal is returned; another literal
\* matches when it equals the value converted to its runtime type; a literal
\* whose type failed to convert never matches.
LiteralFirstMatchWins ==
    pc = "done" =>
        \A hits \in {{i \in DOMAIN converter.args : LiteralMatches(converter.args[i])}} :
            IF hits = {} THEN ~outcome.ok
            ELSE outcome =
                    Return(converter.args[CHOOSE i \in hits : \A j \in hits : i <= j])

\* a string literal declared in lower case is returned for the token in upper
\* case, ahead of a bool literal that the token matches too
LiteralFirstMatchWitness ==
    /\ pc = "done"
    /\ converter.args = <<IntVal(1), StrVal(<<"o", "n">>), BoolVal(TRUE)>>
    /\ argument = <<"O", "N">>
    /\ outcome = Return(StrVal(<<"o", "n">>))

\* the positions of the literals that are the first of their runtime type and
\* whose type fails to convert the token, in declared order
FirstFailingOfType(args) ==
    LET first(i) == /\ \A j \in 1..(i - 1) : TypeOf(args[j]) # TypeOf(args[i])
                    /\ ~ActualConversion(TypeOf(args[i]), argument).ok
    IN  SelectSeq([i \in 1..Len(args) |-> i], first)

\* C15: when no literal matches, run_converters raises BadLiteralArgument
\* carrying the declared literals and exactly one error per runtime type whose
\* conversion failed, in order of first occurrence of the type, also when some
\* type converted but its value matched no literal.
LiteralNoMatchRaisesErrorsPerType ==
    (pc = "done" /\ \A i \in DOMAIN converter.args : ~LiteralMatches(converter.args[i])) =>
        \A firsts \in {FirstFailingOfType(converter.args)} :
            /\ ~outcome.ok
            /\ outcome.exc.type = "BadLiteralArgument"
            /\ outcome.exc.arg = argument
            /\ outcome.literals = converter.args
            /\ outcome.errors =
                  [k \in 1..Len(firsts) |->
                      ActualConversion(TypeOf(converter.args[firsts[k]]), argument).exc]

\* two int literals fail with one error between them, and the str literal
\* converts and does not match
LiteralNoMatchWitness ==
    /\ pc = "done"
    /\ converter.args = <<IntVal(1), StrVal(<<"o", "n">>), IntVal(2)>>
    /\ argument = <<"x">>
    /\ outcome.errors = <<BadArgument("int")>>

---------------------------------------------------------------------------
(* Range *)

\* floats are fractions <<num, den>>; <<0, 0>> is nan, <<1, 0>> and <<-1, 0>>
\* are the infinities
NaN == <<0, 0>>
IsNaN(f) == f[1] = 0 /\ f[2] = 0

\* < and <= on floats: every comparison with nan is false
FloatLess(a, b) == ~IsNaN(a) /\ ~IsNaN(b) /\ FracLess(a, b)
FloatLeq(a, b) == ~IsNaN(a) /\ ~IsNaN(b) /\ FracLeq(a, b)

RECURSIVE PowerOfTen(_)
PowerOfTen(n) == IF n = 0 THEN 1 ELSE 10 * PowerOfTen(n - 1)

\* the decimal numeral "digits[.digits]" as a fraction, when it is one
DecimalCall(s) ==
    LET parts == Split(s, ".")
        whole == parts[1]
        frac == IF Len(parts) = 2 THEN parts[2] ELSE <<>>
    IN  IF /\ Len(parts) <= 2
           /\ AllDigits(whole) /\ AllDigits(frac)
           /\ Len(whole) + Len(frac) > 0
        THEN [ok |-> TRUE,
              val |-> <<(IF whole = <<>> THEN 0 ELSE DecimalValue(whole)) * PowerOfTen(Len(frac))
                          + (IF frac = <<>> THEN 0 ELSE DecimalValue(frac)),
                        PowerOfTen(Len(frac))>>]
        ELSE [ok |-> FALSE, val |-> NaN]

\* float(argument): an optional sign, then nan, inf, infinity (in any case) or
\* a decimal numeral
FloatCall(arg) ==
    LET signed == Len(arg) > 0 /\ arg[1] \in {"-", "+"}
        body == Lower(IF signed THEN Tail(arg) ELSE arg)
        sign == IF signed /\ arg[1] = "-" THEN -1 ELSE 1
        d == DecimalCall(body)
    IN  IF body = <<"n", "a", "n">> THEN [ok |-> TRUE, val |-> FracVal(NaN)]
        ELSE IF body \in {<<"i", "n", "f">>, <<"i", "n", "f", "i", "n", "i", "t", "y">>}
        THEN [ok |-> TRUE, val |-> FracVal(<<sign, 0>>)]
        ELSE IF d.ok THEN [ok |-> TRUE, val |-> FracVal(<<sign * d.val[1], d.val[2]>>)]
        ELSE [ok |-> FALSE, val |-> None]

\* self.annotation(value)
AnnotationCall(annotation, value) ==
    IF annotation = "float" THEN FloatCall(value) ELSE ConstructorCall(annotation, value)

\* a number as a float, for a comparison
AsFloat(v) == IF v.kind = "int" THEN <<v.val, 1>> ELSE v.val

\* Range.__class_getitem__: cast(min), cast(max)
Cast(annotation, bound) ==
    IF bound = None THEN None
    ELSE IF annotation = "float"
    THEN IF bound.kind = "float" THEN bound ELSE FracVal(<<bound.val, 1>>)
    ELSE IF bound.kind = "float" THEN IntVal(bound.val[1] \div bound.val[2])
    ELSE bound

RangeOf(annotation, min, max) ==
    [origin |-> "Range", annotation |-> annotation,
     min |-> Cast(annotation, min), max |-> Cast(annotation, max)]

\* raise RangeError(converted, minimum=self.min, maximum=self.max)
RangeError(value, min, max) ==
    [type |-> "RangeError", conv |-> "Range", arg |-> value, cause |-> "",
     minimum |-> min, maximum |-> max]

\* Range.convert
RangeConvert(self, value) ==
    LET r == AnnotationCall(self.annotation, value)
        converted == r.val
        count == IF self.annotation = "str" THEN <<Len(value), 1>> ELSE AsFloat(converted)
    IN  IF ~r.ok THEN Raise(BadArgument(self.annotation))
        ELSE IF \/ self.min # None /\ FloatLess(count, AsFloat(self.min))
                \/ self.max # None /\ FloatLess(AsFloat(self.max), count)
        THEN Raise(RangeError(converted, self.min, self.max))
        ELSE Return(converted)

RangeAnnotations == {"int", "float", "str"}
RangeBounds == {None, IntVal(1), IntVal(10)}

RangeTokens ==
    {<<"7">>, <<"1", "5">>, <<"0">>, <<"-", "3">>, <<"1", ".", "5">>, <<"n", "a", "n">>,
     <<"i", "n", "f">>, <<"a", "b", "c">>, <<>>}

\* the Range objects the class can construct: a bound at least, min <= max
InitRange ==
    /\ \E a \in RangeAnnotations, lo \in RangeBounds, hi \in RangeBounds :
          /\ lo # None \/ hi # None
          /\ (lo # None /\ hi # None) => lo.val <= hi.val
          /\ converter = RangeOf(a, lo, hi)
    /\ argument \in RangeTokens
    /\ param = [kind |-> "POSITIONAL_OR_KEYWORD", required |-> TRUE]
    /\ view = ViewAfterRead(argument, <<>>)
    /\ pc = "convert"
    /\ idx = 0
    /\ errors = <<>>
    /\ attempts = <<>>
    /\ outcome = Idle

\* _actual_conversion calls converter.convert(ctx, argument) on the Range
RangeCall ==
    /\ pc = "convert"
    /\ pc' = "done"
    /\ outcome' = ConverterCall("Range", RangeConvert(converter, argument))
    /\ UNCHANGED <<converter, argument, param, view, idx, errors, attempts,
                   greedyVars, fuzzyVars, entityVars, literalVars, instanceVars>>

NextRange == RangeCall

RangeInit == InitRange /\ IdleGreedy /\ IdleFuzzy /\ IdleEntity /\ IdleLiteral /\ IdleInstances

SpecRange == RangeInit /\ [][NextRange]_vars

---------------------------------------------------------------------------
(* Claims about Range *)

\* min <= quantity <= max for each configured bound
WithinBounds(quantity) ==
    /\ converter.min # None => FloatLeq(AsFloat(converter.min), quantity)
    /\ converter.max # None => FloatLeq(quantity, AsFloat(converter.max))

\* C16: Range performs the base conversion first and then succeeds with the
\* converted value if and only if the measured quantity (the number for int
\* and float, the token's length for str) satisfies min <= quantity <= max
\* for each configured bound; otherwise it raises RangeError carrying the
\* converted value and the configured min and max.
RangeSucceedsIffWithinBounds ==
    (pc = "done" /\ AnnotationCall(converter.annotation, argument).ok) =>
        \A converted \in {AnnotationCall(converter.annotation, argument).val} :
        \A quantity \in {IF converter.annotation = "str" THEN <<Len(argument), 1>>
                         ELSE AsFloat(converted)} :
            IF WithinBounds(quantity)
            THEN outcome = Return(converted)
            ELSE outcome = Raise(RangeError(converted, converter.min, converter.max))

---------------------------------------------------------------------------
(* bool *)

UpperChar(c) ==
    CASE c = "a" -> "A" [] c = "b" -> "B" [] c = "c" -> "C" [] c = "d" -> "D"
      [] c = "e" -> "E" [] c = "f" -> "F" [] c = "g" -> "G" [] c = "h" -> "H"
      [] c = "i" -> "I" [] c = "j" -> "J" [] c = "k" -> "K" [] c = "l" -> "L"
      [] c = "m" -> "M" [] c = "n" -> "N" [] c = "o" -> "O" [] c = "p" -> "P"
      [] c = "q" -> "Q" [] c = "r" -> "R" [] c = "s" -> "S" [] c = "t" -> "T"
      [] c = "u" -> "U" [] c = "v" -> "V" [] c = "w" -> "W" [] c = "x" -> "X"
      [] c = "y" -> "Y" [] c = "z" -> "Z" [] OTHER -> c

\* str.upper(), str.capitalize() and the word with its last letter in upper case
Upper(s) == [i \in 1..Len(s) |-> UpperChar(s[i])]
Capitalize(s) == [i \in 1..Len(s) |-> IF i = 1 THEN UpperChar(s[i]) ELSE s[i]]
UpperLast(s) == [i \in 1..Len(s) |-> IF i = Len(s) THEN UpperChar(s[i]) ELSE s[i]]

Casings(s) == {s, Upper(s), Capitalize(s), UpperLast(s)}

OtherWords ==
    {<<>>, <<"2">>, <<"1", "0">>, <<"0", "1">>, <<"-", "1">>, <<"o">>, <<"y", "e">>,
     <<"y", "e", "s", "s">>, <<"t", "r", "u">>, <<"n", "o", " ">>, <<" ", "o", "n">>,
     <<"o", "f">>, <<"e", "n", "a", "b", "l", "e", "d">>, <<"n", "o", "n", "e">>,
     <<"m", "a", "y", "b", "e">>, <<"o", "k">>}

BoolTokens == UNION {Casings(w) : w \in TruthyWords \cup FalsyWords \cup OtherWords}

InitBool ==
    /\ converter = [origin |-> "none", args |-> <<"bool">>]
    /\ argument \in BoolTokens
    /\ param = [kind |-> "POSITIONAL_OR_KEYWORD", required |-> TRUE]
    /\ view = ViewAfterRead(argument, <<>>)
    /\ pc = "convert"
    /\ idx = 0
    /\ errors = <<>>
    /\ attempts = <<>>
    /\ outcome = Idle

\* _actual_conversion(ctx, bool, argument, param)
BoolCall ==
    /\ pc = "convert"
    /\ pc' = "done"
    /\ outcome' = ActualConversion(converter.args[1], argument)
    /\ UNCHANGED <<converter, argument, param, view, idx, errors, attempts,
                   greedyVars, fuzzyVars, entityVars, literalVars, instanceVars>>

NextBool == BoolCall

BoolInit == InitBool /\ IdleGreedy /\ IdleFuzzy /\ IdleEntity /\ IdleLiteral /\ IdleInstances

SpecBool == BoolInit /\ [][NextBool]_vars

---------------------------------------------------------------------------
(* Claims about bool *)

ClaimedTrue ==
    {<<"y", "e", "s">>, <<"y">>, <<"t", "r", "u", "e">>, <<"t">>, <<"1">>,
     <<"e", "n", "a", "b", "l", "e">>, <<"o", "n">>}
ClaimedFalse ==
    {<<"n", "o">>, <<"n">>, <<"f", "a", "l", "s", "e">>, <<"f">>, <<"0">>,
     <<"d", "i", "s", "a", "b", "l", "e">>, <<"o", "f", "f">>}

\* C17: a token whose lower-case form is one of yes, y, true, t, 1, enable, on
\* converts to True, one whose lower-case form is one of no, n, false, f, 0,
\* disable, off converts to False, in any casing, and every other token fails
\* with BadBoolArgument carrying the lower-cased token.
BoolByKeyword ==
    pc = "done" =>
        \A lowered \in {[i \in 1..Len(argument) |-> LowerChar(argument[i])]} :
            CASE lowered \in ClaimedTrue -> outcome = Return(BoolVal(TRUE))
              [] lowered \in ClaimedFalse -> outcome = Return(BoolVal(FALSE))
              [] OTHER -> /\ ~outcome.ok
                          /\ outcome.exc.type = "BadBoolArgument"
                          /\ outcome.exc.arg = lowered

\* a keyword in mixed case converts
BoolByKeywordWitness ==
    /\ pc = "done"
    /\ argument = <<"D", "i", "s", "a", "b", "l", "e">>
    /\ outcome = Return(BoolVal(FALSE))

---------------------------------------------------------------------------
(* TimeDeltaConverter *)

\* base_units, in the order of the dict; a value is a fraction of seconds
BaseUnits ==
    <<[unit |-> <<"m", "s">>, value |-> <<1, 1000>>],
      [unit |-> <<"s">>, value |-> <<1, 1>>],
      [unit |-> <<"m">>, value |-> <<60, 1>>],
      [unit |-> <<"h">>, value |-> <<3600, 1>>],
      [unit |-> <<"d">>, value |-> <<86400, 1>>],
      [unit |-> <<"w">>, value |-> <<604800, 1>>],
      [unit |-> <<"y">>, value |-> <<31536000, 1>>]>>

\* what the comprehension appends to each unit to make its keys
UnitSuffixes ==
    {<<>>, <<"s">>, <<"e", "c">>, <<"e", "c", "s">>, <<"i", "n">>, <<"i", "n", "s">>,
     <<"i", "n", "u", "t", "e">>, <<"i", "n", "u", "t", "e", "s">>,
     <<"o", "u", "r">>, <<"o", "u", "r", "s">>, <<"a", "y">>, <<"a", "y", "s">>,
     <<"e", "e", "k">>, <<"e", "e", "k", "s">>, <<"e", "a", "r">>, <<"e", "a", "r", "s">>,
     <<"i", "l", "l", "i", "s", "e", "c", "o", "n", "d">>,
     <<"i", "l", "l", "i", "s", "e", "c", "o", "n", "d", "s">>}

\* the base units that produce this key
UnitsYielding(key) ==
    {i \in 1..Len(BaseUnits) : \E suffix \in UnitSuffixes : BaseUnits[i].unit \o suffix = key}

\* `unit in time_units`, and time_units[unit]: in the dict comprehension a key
\* produced again by a later base unit takes the later value
InTimeUnits(key) == UnitsYielding(key) # {}
TimeUnits(key) ==
    BaseUnits[CHOOSE i \in UnitsYielding(key) : \A j \in UnitsYielding(key) : j <= i].value

Letters == EmojiNameChars \ (DigitChars \cup {"_"})

\* where the longest run of characters of the class that starts at p ends
\* (p - 1 when there is none)
RunEnd(s, p, class) ==
    CHOOSE q \in (p - 1)..Len(s) :
        /\ \A i \in p..q : s[i] \in class
        /\ q = Len(s) \/ s[q + 1] \notin class

\* r'(\d+\.?\d*)\s*([a-zA-Z]+)' matched at position p
RunAt(s, p) ==
    LET a == RunEnd(s, p, DigitChars)
        b == IF a < Len(s) /\ s[a + 1] = "." THEN a + 1 ELSE a
        c == RunEnd(s, b + 1, DigitChars)
        w == RunEnd(s, c + 1, Whitespace)
        e == RunEnd(s, w + 1, Letters)
    IN  IF a >= p /\ e > w
        THEN [ok |-> TRUE, value |-> SubSeq(s, p, c), unit |-> SubSeq(s, w + 1, e), end |-> e]
        ELSE [ok |-> FALSE, value |-> <<>>, unit |-> <<>>, end |-> p]

\* re.findall: the matches from left to right, each search resuming after the
\* previous match
RECURSIVE FindAll(_, _)
FindAll(s, p) ==
    IF p > Len(s) THEN <<>>
    ELSE IF RunAt(s, p).ok
    THEN <<[value |-> RunAt(s, p).value, unit |-> RunAt(s, p).unit]>>
            \o FindAll(s, RunAt(s, p).end + 1)
    ELSE FindAll(s, p + 1)

\* sums and products of fractions whose denominators are powers of ten
FracAdd(a, b) ==
    IF a[2] >= b[2] THEN <<a[1] + b[1] * (a[2] \div b[2]), a[2]>>
    ELSE <<a[1] * (b[2] \div a[2]) + b[1], b[2]>>
FracMul(a, b) == <<a[1] * b[1], a[2] * b[2]>>

\* a run of unknown unit counted as seconds instead of skipped
RunSecondsCountsUnknown(run) ==
    FracMul(DecimalCall(run.value).val,
            IF InTimeUnits(run.unit) THEN TimeUnits(run.unit) ELSE <<1, 1>>)

\* what one match adds to the sum: float(value) * time_units[unit], and
\* nothing when the generator's `if unit in time_units` leaves the match out
RunSeconds(run) ==
    IF InTimeUnits(run.unit)
    THEN FracMul(DecimalCall(run.value).val, TimeUnits(run.unit))
    ELSE <<0, 1>>

\* sum(float(value) * time_units[unit] for value, unit in matches if unit in time_units)
RECURSIVE SumRuns(_, _)
SumRuns(matches, i) ==
    IF i > Len(matches) THEN <<0, 1>>
    ELSE FracAdd(RunSeconds(matches[i]), SumRuns(matches, i + 1))

MicrosPerSecond == 1000000

\* timedelta(seconds=x).total_seconds() == 0: a timedelta is a whole number of
\* microseconds, rounded half to even, so x <= 0.5 us gives zero
IsZeroDuration(x) == x[1] <= x[2] \div (2 * MicrosPerSecond)

TimeDeltaVal(x) == [kind |-> "timedelta", val |-> x]

BadTimeArgument(message, arg) ==
    [type |-> "BadArgument", conv |-> "TimeDeltaConverter", arg |-> arg, cause |-> "",
     message |-> message]

\* TimeDeltaConverter.convert
TimeDeltaConvert(arg) ==
    LET matches == FindAll(arg, 1)
        total == SumRuns(matches, 1)
    IN  IF matches = <<>>
        THEN Raise(BadTimeArgument("Could not parse any time units", arg))
        ELSE IF IsZeroDuration(total)
        THEN Raise(BadTimeArgument("Invalid time unit", arg))
        ELSE Return(TimeDeltaVal(total))

\* the unit spellings the docstring lists, and further spellings
DocumentedUnits ==
    {<<"s">>, <<"s", "e", "c", "o", "n", "d", "s">>, <<"m", "s">>,
     <<"m", "i", "l", "l", "i", "s", "e", "c", "o", "n", "d", "s">>, <<"m">>,
     <<"m", "i", "n", "u", "t", "e", "s">>, <<"h">>, <<"h", "o", "u", "r", "s">>, <<"d">>,
     <<"d", "a", "y", "s">>, <<"w">>, <<"w", "e", "e", "k", "s">>, <<"y">>,
     <<"y", "e", "a", "r", "s">>}
OtherSpellings ==
    {<<"s", "e", "c">>, <<"s", "e", "c", "s">>, <<"m", "i", "n">>, <<"m", "i", "n", "s">>,
     <<"m", "i", "n", "u", "t", "e">>, <<"h", "o", "u", "r">>, <<"d", "a", "y">>,
     <<"w", "e", "e", "k">>, <<"y", "e", "a", "r">>, <<"m", "s", "e", "c">>,
     <<"m", "s", "e", "c", "s">>, <<"s", "s">>, <<"h", "r">>, <<"x">>,
     <<"s", "e", "c", "o", "n", "d">>,
     <<"m", "i", "l", "l", "i", "s", "e", "c", "o", "n", "d">>, <<"m", "o">>}

DurationNumbers == {<<"1">>, <<"1", "0">>}

\* tokens of several runs, of runs with unknown units, of zero totals, of no run
OtherDurations ==
    {<<"1", "h", "3", "0", "m">>, <<"1", "h", " ", "3", "0", "m">>,
     <<"2", "m", "3", "0", "s">>, <<"1", "d", "2", "h">>, <<"2", "d", "5", "x">>,
     <<"5", "x", "2", "d">>, <<"1", "h", "5", "x", "3", "0", "m">>,
     <<"1", "0", "s", "5", "S">>, <<"1", "0", " ", "m", "i", "n", "u", "t", "e", "s">>,
     <<"1", "0", " ", " ", "s">>, <<"1", ".", "5", "h">>, <<"1", ".", "h">>,
     <<"0", ".", "5", "m">>, <<"1", ".", "2", ".", "3", "s">>, <<"0", "s">>,
     <<"0", "s", "0", "m">>, <<"0", ".", "0", "h">>,
     <<"0", ".", "0", "0", "0", "1", "m", "s", "e", "c">>, <<"0", "x">>,
     <<"a", "b", "c">>, <<"1", "0">>, <<>>, <<"1", ".", "5">>, <<"s", "1", "0">>,
     <<"1", "0", " ", "s", " ", "5">>, <<"h">>, <<"1", "0", ".", "m">>}

DurationTokens ==
    {n \o u : n \in DurationNumbers,
              u \in UNION {Casings(w) : w \in DocumentedUnits \cup OtherSpellings}}
        \cup OtherDurations

InitDuration ==
    /\ converter = [origin |-> "none", args |-> <<"TimeDeltaConverter">>]
    /\ argument \in DurationTokens
    /\ param = [kind |-> "POSITIONAL_OR_KEYWORD", required |-> TRUE]
    /\ view = ViewAfterRead(argument, <<>>)
    /\ pc = "convert"
    /\ idx = 0
    /\ errors = <<>>
    /\ attempts = <<>>
    /\ outcome = Idle

\* _actual_conversion(ctx, TimeDeltaConverter, argument, param): the class is
\* a Converter, so an instance's convert is awaited; a CommandError passes,
\* any other exception becomes ConversionError
DurationCall ==
    /\ pc = "convert"
    /\ pc' = "done"
    /\ outcome' = ConverterCall(converter.args[1], TimeDeltaConvert(argument))
    /\ UNCHANGED <<converter, argument, param, view, idx, errors, attempts,
                   greedyVars, fuzzyVars, entityVars, literalVars, instanceVars>>

NextDuration == DurationCall

DurationInit == InitDuration /\ IdleGreedy /\ IdleFuzzy /\ IdleEntity /\ IdleLiteral /\ IdleInstances

SpecDuration == DurationInit /\ [][NextDuration]_vars

---------------------------------------------------------------------------
(* Claims about durations *)

\* the seconds the documentation gives each listed unit spelling
ClaimedSeconds(u) ==
    CASE u \in {<<"m", "s">>, <<"m", "i", "l", "l", "i", "s", "e", "c", "o", "n", "d", "s">>}
            -> <<1, 1000>>
      [] u \in {<<"s">>, <<"s", "e", "c", "o", "n", "d", "s">>} -> <<1, 1>>
      [] u \in {<<"m">>, <<"m", "i", "n", "u", "t", "e", "s">>} -> <<60, 1>>
      [] u \in {<<"h">>, <<"h", "o", "u", "r", "s">>} -> <<3600, 1>>
      [] u \in {<<"d">>, <<"d", "a", "y", "s">>} -> <<86400, 1>>
      [] u \in {<<"w">>, <<"w", "e", "e", "k", "s">>} -> <<604800, 1>>
      [] u \in {<<"y">>, <<"y", "e", "a", "r", "s">>} -> <<31536000, 1>>

\* the call returned a duration of x seconds
ReturnedSeconds(x) ==
    /\ outcome.ok
    /\ outcome.val.kind = "timedelta"
    /\ outcome.val.val[1] * x[2] = x[1] * outcome.val.val[2]

MultiRunNumbers == {<<"1">>, <<"2">>, <<"3", "0">>}

\* C18: for every documented unit spelling and positive integer n the token
\* "<n><unit>" converts to n times the documented seconds of the unit, and a
\* token of two such runs converts to the sum of its runs.
DocumentedUnitsConvert ==
    pc = "done" =>
        /\ \A n \in DurationNumbers, u \in DocumentedUnits :
              argument = n \o u =>
                  ReturnedSeconds(FracMul(DecimalCall(n).val, ClaimedSeconds(u)))
        /\ \A n1 \in MultiRunNumbers, n2 \in MultiRunNumbers :
              \A u1 \in DocumentedUnits, u2 \in DocumentedUnits :
                  argument = n1 \o u1 \o n2 \o u2 =>
                      ReturnedSeconds(FracAdd(FracMul(DecimalCall(n1).val, ClaimedSeconds(u1)),
                                              FracMul(DecimalCall(n2).val, ClaimedSeconds(u2))))

\* C19: for every recognised unit spelling u and number n, the token "<n><u>"
\* with u in lower, upper or mixed case converts to what the lower-case token
\* converts to.
UnitsCaseInsensitive ==
    pc = "done" =>
        \A n \in DurationNumbers :
            \A u \in {w \in DocumentedUnits \cup OtherSpellings : InTimeUnits(w)} :
                argument \in {n \o c : c \in Casings(u)} =>
                    ReturnedSeconds(FracMul(DecimalCall(n).val, TimeUnits(u)))

\* the runs of the token whose unit is in the alias table
RecognisedRuns(arg) == SelectSeq(FindAll(arg, 1), LAMBDA run : InTimeUnits(run.unit))

RECURSIVE SecondsOf(_)
SecondsOf(runs) ==
    IF runs = <<>> THEN <<0, 1>>
    ELSE FracAdd(FracMul(DecimalCall(Head(runs).value).val, TimeUnits(Head(runs).unit)),
                 SecondsOf(Tail(runs)))

RaisedBadArgument == ~outcome.ok /\ outcome.exc.type = "BadArgument"

\* C20: runs whose unit is not in the alias table are skipped and the
\* recognised runs summed; a token with no <number><unit> run fails with
\* BadArgument, so does one whose recognised runs are none or all of value 0,
\* and a returned duration is never zero.
UnrecognisedRunsSkipped ==
    pc = "done" =>
        /\ FindAll(argument, 1) = <<>> => RaisedBadArgument
        /\ (\A i \in 1..Len(RecognisedRuns(argument)) :
                DecimalCall(RecognisedRuns(argument)[i].value).val[1] = 0)
              => RaisedBadArgument
        /\ outcome.ok =>
              /\ ReturnedSeconds(SecondsOf(RecognisedRuns(argument)))
              /\ outcome.val.val[1] > 0
        /\ outcome.ok \/ RaisedBadArgument

\* "2d5x" has converted: the run 5x was skipped and two days returned
UnrecognisedRunsSkippedWitness ==
    /\ pc = "done"
    /\ argument = <<"2", "d", "5", "x">>
    /\ Len(FindAll(argument, 1)) = 2
    /\ Len(RecognisedRuns(argument)) = 1
    /\ outcome = Return(TimeDeltaVal(<<172800, 1>>))

---------------------------------------------------------------------------
(* RolesConverter *)

\* str.strip()
Strip(s) ==
    LET keep == {i \in 1..Len(s) : s[i] \notin Whitespace} IN
    IF keep = {} THEN <<>>
    ELSE SubSeq(s, CHOOSE a \in keep : \A i \in keep : a <= i,
                   CHOOSE b \in keep : \A i \in keep : i <= b)

\* the loop body with the segment handed on as split, not stripped
RolesBodyNoStrip(st, arg, cx, ch) ==
    LET seg == Split(arg, ",")[st.idx + 1]
        r == RoleConvert(seg, cx, ch)
        tried == [st EXCEPT !.attempts = Append(st.attempts, seg),
                            !.stages = st.stages \o r.stages]
    IN  IF r.out.ok
        THEN [tried EXCEPT !.result = Append(st.result, r.out.val), !.idx = st.idx + 1]
        ELSE [tried EXCEPT !.pc = "done", !.outcome = ConverterCall("Roles", r.out)]

\* one pass of `for arg in argument.split(',')`: the stripped segment goes to a
\* new RoleConverter, whose error leaves convert, whose role is appended
RolesBody(st, arg, cx, ch) ==
    LET seg == Strip(Split(arg, ",")[st.idx + 1])
        r == RoleConvert(seg, cx, ch)
        tried == [st EXCEPT !.attempts = Append(st.attempts, seg),
                            !.stages = st.stages \o r.stages]
    IN  IF r.out.ok
        THEN [tried EXCEPT !.result = Append(st.result, r.out.val), !.idx = st.idx + 1]
        ELSE [tried EXCEPT !.pc = "done", !.outcome = ConverterCall("Roles", r.out)]

RolesState ==
    [pc |-> pc, idx |-> idx, attempts |-> attempts, outcome |-> outcome,
     result |-> result, stages |-> stages]

RolesTokens ==
    {Bob, KnownId, UnknownId, <<>>, <<",">>, <<"z", "z">>,
     Bob \o <<",">> \o KnownId,
     <<" ">> \o Bob \o <<" ", ",", " ">> \o Bob,
     Bob \o <<",", ",">> \o KnownId,
     UnknownId \o <<",">> \o Bob,
     <<"<", "@", "&">> \o KnownId \o <<">", ",", " ">> \o OtherId,
     <<"z", "z", " ", ",">> \o Bob \o <<",", "o">>}

InitRoles ==
    /\ kind = "Roles"
    /\ argument \in RolesTokens
    /\ \E pa \in Placements, pb \in Placements :
          cache = [local |-> Placed("local", pa, pb), other |-> Placed("other", pa, pb)]
    /\ ctx \in [guild : BOOLEAN, mentions : {<<>>}, ratelimited : {FALSE},
                joined : {FALSE}, channel : {FALSE}]
    /\ calls = <<>>
    /\ stages = <<>>
    /\ pc = "convert"
    /\ outcome = Idle
    /\ converter = [origin |-> "list", args |-> <<"Role">>]
    /\ param = [kind |-> "POSITIONAL_OR_KEYWORD", required |-> TRUE]
    /\ view = IdleView
    /\ idx = 0
    /\ errors = <<>>
    /\ attempts = <<>>
    /\ result = <<>>
    /\ nextRead = <<>>

\* RolesConverter.convert up to the loop: no guild raises NoPrivateMessage
RolesEnter ==
    /\ pc = "convert"
    /\ IF ~ctx.guild
       THEN /\ pc' = "done"
            /\ outcome' = ConverterCall("Roles", Raise(Exc("NoPrivateMessage", "Roles", <<>>, "")))
       ELSE /\ pc' = "roles"
            /\ outcome' = outcome
    /\ UNCHANGED <<converter, argument, param, view, idx, errors, attempts,
                   greedyVars, fuzzyVars, entityVars, literalVars, instanceVars>>

\* the loop body, for the next segment
RolesIterate ==
    /\ pc = "roles"
    /\ idx < Len(Split(argument, ","))
    /\ \E st \in {RolesBody(RolesState, argument, ctx, cache)} :
        /\ pc' = st.pc
        /\ idx' = st.idx
        /\ attempts' = st.attempts
        /\ outcome' = st.outcome
        /\ result' = st.result
        /\ stages' = st.stages
    /\ UNCHANGED <<converter, argument, param, view, errors, nextRead,
                   fuzzyVars, kind, ctx, cache, calls, literalVars, instanceVars>>

\* after the loop: an empty list raises RoleNotFound, any other is returned
RolesReturn ==
    /\ pc = "roles"
    /\ idx = Len(Split(argument, ","))
    /\ pc' = "done"
    /\ outcome' = IF result = <<>>
                  THEN ConverterCall("Roles", Raise(NotFound("RoleNotFound", "Roles", argument)))
                  ELSE Return(ListVal(result))
    /\ UNCHANGED <<converter, argument, param, view, idx, errors, attempts,
                   greedyVars, fuzzyVars, entityVars, literalVars, instanceVars>>

NextRoles == RolesEnter \/ RolesIterate \/ RolesReturn

RolesInit == InitRoles /\ IdleFuzzy /\ IdleLiteral /\ IdleInstances

SpecRoles == RolesInit /\ [][NextRoles]_vars

---------------------------------------------------------------------------
(* Claims about RolesConverter *)

\* the stripped segments of the token, and what the single-role conversion
\* makes of each
Segments == [i \in 1..Len(Split(argument, ",")) |-> Strip(Split(argument, ",")[i])]
SegmentOut(i) == RoleConvert(Segments[i], ctx, cache).out
FailingSegments == {i \in 1..Len(Segments) : ~SegmentOut(i).ok}

\* C21: in a guild the token is split on commas, every segment is stripped and
\* converted as a single role in segment order; when all convert the result is
\* their roles in that order, otherwise the call fails with the error of the
\* first failing segment and no later segment is converted; an empty list is
\* never returned.
RolesResolveSegmentsInOrder ==
    (pc = "done" /\ ctx.guild) =>
        /\ FailingSegments = {} =>
              /\ outcome = Return(ListVal([i \in 1..Len(Segments) |-> SegmentOut(i).val]))
              /\ attempts = Segments
        /\ \A f \in FailingSegments :
              (\A i \in FailingSegments : f <= i) =>
                  /\ ~outcome.ok
                  /\ outcome.exc = SegmentOut(f).exc
                  /\ attempts = SubSeq(Segments, 1, f)
        /\ outcome.ok => outcome.val.val # <<>>

\* " bob , bob" has converted to two roles
RolesResolveWitness ==
    /\ pc = "done"
    /\ ctx.guild
    /\ argument = <<" ">> \o Bob \o <<" ", ",", " ">> \o Bob
    /\ attempts = <<Bob, Bob>>
    /\ outcome = Return(ListVal(<<EntityVal(Named), EntityVal(Named)>>))

---------------------------------------------------------------------------
(* _actual_conversion: the dispatch on the form of the converter *)

\* exceptions that do not derive from CommandError
OtherExceptions == {"ValueError", "TypeError", "ZeroDivisionError"}

\* what a converter of the application does when called: it returns, or
\* raises a CommandError, or raises another exception
Behaviours == {"returns"} \cup {"BadArgument", "RoleNotFound"} \cup OtherExceptions

\* the forms a converter is given in: the type bool, a Converter class (with
\* convert a plain or a class method), a Converter instance, any other callable
ConverterForms == {"class", "classmethod", "instance", "callable"}

ConverterDescriptors ==
    {[form |-> "bool", name |-> "bool", does |-> "returns"],
     [form |-> "callable", name |-> "int", does |-> "returns"],
     [form |-> "callable", name |-> "str", does |-> "returns"],
     [form |-> "class", name |-> "TimeDeltaConverter", does |-> "returns"]}
        \cup [form : ConverterForms, name : {"Custom"}, does : Behaviours]

\* the body that is called: _convert_to_bool(argument), convert(ctx, argument)
\* or converter(argument)
BodyCall(conv, arg) ==
    CASE conv.name = "bool" -> ConvertToBool(arg)
      [] conv.name = "int" ->
            IF IntCall(arg).ok THEN Return(IntVal(IntCall(arg).val))
            ELSE Raise(Exc("ValueError", "int", arg, ""))
      [] conv.name = "str" -> Return(StrVal(arg))
      [] conv.name = "TimeDeltaConverter" -> TimeDeltaConvert(arg)
      [] conv.name = "Custom" ->
            IF conv.does = "returns" THEN Return(StrVal(arg))
            ELSE Raise(Exc(conv.does, conv.name, arg, ""))

\* BadArgument('Converting to "{name}" failed for parameter "{param.name}".') from exc
ConvertingFailed(name, p, exc) ==
    [type |-> "BadArgument", conv |-> name, arg |-> <<>>, cause |-> exc.type,
     param |-> p.name]

\* _actual_conversion with the exception of a plain callable left as raised
ActualConversionDispatchUnwrapped(conv, arg, p) ==
    IF conv.form = "bool" THEN ConvertToBool(arg)
    ELSE IF conv.form \in {"class", "classmethod", "instance"}
    THEN ConverterCall(conv.name, BodyCall(conv, arg))
    ELSE BodyCall(conv, arg)

\* _actual_conversion
ActualConversionDispatch(conv, arg, p) ==
    IF conv.form = "bool" THEN ConvertToBool(arg)
    ELSE IF conv.form \in {"class", "classmethod", "instance"}
    THEN ConverterCall(conv.name, BodyCall(conv, arg))
    ELSE IF BodyCall(conv, arg).ok \/ BodyCall(conv, arg).exc.type \in CommandErrors
    THEN BodyCall(conv, arg)
    ELSE Raise(ConvertingFailed(conv.name, p, BodyCall(conv, arg).exc))

DispatchTokens == {<<"1">>, <<"x">>, <<"1", "0", "s">>, <<"y", "e", "s">>}
ParamNames == {"count", "who"}

InitDispatch ==
    /\ converter \in [origin : {"none"}, args : {<<d>> : d \in ConverterDescriptors}]
    /\ argument \in DispatchTokens
    /\ param \in [kind : {"POSITIONAL_OR_KEYWORD"}, required : {TRUE}, name : ParamNames]
    /\ view = ViewAfterRead(argument, <<>>)
    /\ pc = "convert"
    /\ idx = 0
    /\ errors = <<>>
    /\ attempts = <<>>
    /\ outcome = Idle

\* run_converters with a converter that is no Greedy, Union or Literal: line
\* 1663 hands it to _actual_conversion
DispatchCall ==
    /\ pc = "convert"
    /\ pc' = "done"
    /\ outcome' = ActualConversionDispatch(converter.args[1], argument, param)
    /\ UNCHANGED <<converter, argument, param, view, idx, errors, attempts,
                   greedyVars, fuzzyVars, entityVars, literalVars, instanceVars>>

NextDispatch == DispatchCall

DispatchInit == InitDispatch /\ IdleGreedy /\ IdleFuzzy /\ IdleEntity /\ IdleLiteral /\ IdleInstances

SpecDispatch == DispatchInit /\ [][NextDispatch]_vars

---------------------------------------------------------------------------
(* Claims about the dispatch *)

\* the errors that derive from CommandError
Classified == CommandErrors \cup {"ConversionError"}

\* C22: every failure that leaves _actual_conversion is a CommandError: one
\* raised by the converter leaves unchanged, another exception raised in a
\* Converter's convert leaves as ConversionError keeping the original, another
\* exception raised by a plain callable leaves as BadArgument naming the type
\* and the parameter, and a call whose body raised never returns.
OnlyClassifiedErrorsLeave ==
    pc = "done" =>
        \A conv \in {converter.args[1]} : \A body \in {BodyCall(conv, argument)} :
            /\ ~outcome.ok => outcome.exc.type \in Classified
            /\ ~body.ok => ~outcome.ok
            /\ (~body.ok /\ body.exc.type \in Classified) => outcome.exc = body.exc
            /\ (conv.form \in {"class", "classmethod", "instance"} /\ ~body.ok
                    /\ body.exc.type \notin Classified)
                  => /\ outcome.exc.type = "ConversionError"
                     /\ outcome.exc.conv = conv.name
                     /\ outcome.exc.cause = body.exc.type
            /\ (conv.form = "callable" /\ ~body.ok /\ body.exc.type \notin Classified)
                  => /\ outcome.exc.type = "BadArgument"
                     /\ outcome.exc.conv = conv.name
                     /\ outcome.exc.param = param.name
                     /\ outcome.exc.cause = body.exc.type

\* int("x") raised ValueError and BadArgument for int and the parameter left
OnlyClassifiedErrorsWitness ==
    /\ pc = "done"
    /\ converter.args[1].name = "int"
    /\ argument = <<"x">>
    /\ ~outcome.ok
    /\ outcome.exc.type = "BadArgument"
    /\ outcome.exc.cause = "ValueError"
    /\ outcome.exc.param = param.name

---------------------------------------------------------------------------
(* An entity conversion run twice in succession *)

\* the first conversion has ended: its outcome is kept and the same converter
\* is called again with the same token and context, against the caches as the
\* first conversion left them
ConvertAgain ==
    /\ pc = "done"
    /\ attempts = <<>>
    /\ attempts' = <<outcome>>
    /\ pc' = "convert"
    /\ outcome' = Idle
    /\ stages' = <<>>
    /\ UNCHANGED <<converter, argument, param, view, idx, errors,
                   greedyVars, fuzzyVars, literalVars, kind, ctx, cache, calls,
                   instanceVars>>

\* the replies the remote side gave to this request before
EarlierReplies(call) ==
    {calls[i].reply : i \in {j \in 1..(Len(calls) - 1) :
                                /\ calls[j].op = call.op
                                /\ calls[j].by = call.by
                                /\ calls[j].key = call.key}}

\* the remote side answers the second conversion as it answered the first
ReplayReply ==
    /\ pc = "awaiting"
    /\ attempts # <<>>
    /\ \E resp \in Responses(calls[Len(calls)]) :
          /\ EarlierReplies(calls[Len(calls)]) \in {{}, {resp}}
          /\ \E r \in {Resume(kind, calls[Len(calls)], resp, argument, ctx, cache)} :
                /\ outcome' = ConverterCall(kind, r.out)
                /\ cache' = r.cache
                /\ calls' = [calls EXCEPT ![Len(calls)].reply = resp]
    /\ stages' = Append(stages, "remote")
    /\ pc' = "done"
    /\ UNCHANGED <<converter, argument, param, view, idx, errors, attempts,
                   greedyVars, fuzzyVars, literalVars, kind, ctx, instanceVars>>

NextTwice ==
    \/ attempts = <<>> /\ NextEntity
    \/ ConvertAgain
    \/ attempts # <<>> /\ EntityConvert
    \/ ReplayReply

SpecTwice == EntityInit /\ [][NextTwice]_vars

---------------------------------------------------------------------------
(* Claims about repeated conversion *)

SecondDone == pc = "done" /\ attempts # <<>>

---------------------------------------------------------------------------
(* Claims about MessageConverter *)

\* C24: MessageConverter given a bare message ID returns only a message of
\* the context channel: never one that is cached under another channel.
BareIdMessageInContextChannel ==
    (pc = "done" /\ kind = "Message" /\ IsIdDigits(argument) /\ outcome.ok) =>
        \A i \in 1..Len(cache.other) : outcome.val.val # cache.other[i]

---------------------------------------------------------------------------
(* Two invocations converting the same token, interleaved at their awaits *)

Invocations == {1, 2}

\* in this specification pc, outcome, stages and idx hold one value per
\* invocation; idx[n] is the position in calls of the call n awaits
InitInterleaved ==
    /\ kind \in Kinds
    /\ argument \in EntityTokens
    /\ \E pa \in Placements, pb \in Placements :
          cache = [local |-> Placed("local", pa, pb), other |-> Placed("other", pa, pb)]
    /\ ctx \in [guild : BOOLEAN,
                mentions : IF kind \in {"Member", "User"} THEN {<<>>, <<Named>>} ELSE {<<>>},
                ratelimited : IF kind = "Member" THEN BOOLEAN ELSE {FALSE},
                joined : IF kind = "Member" THEN BOOLEAN ELSE {FALSE},
                channel : IF kind = "Message" THEN BOOLEAN ELSE {FALSE}]
    /\ calls = <<>>
    /\ stages = <<<<>>, <<>>>>
    /\ pc = <<"convert", "convert">>
    /\ outcome = <<Idle, Idle>>
    /\ idx = <<0, 0>>
    /\ converter = [origin |-> "none", args |-> <<>>]
    /\ param = [kind |-> "POSITIONAL_OR_KEYWORD", required |-> TRUE]
    /\ view = IdleView
    /\ errors = <<>>
    /\ attempts = <<>>

\* invocation n: convert() runs to its end or to its remote call
InvocationConvert(n) ==
    /\ pc[n] = "convert"
    /\ \E r \in {Convert(kind, argument, ctx, cache)} :
          /\ stages' = [stages EXCEPT ![n] = r.stages]
          /\ calls' = calls \o r.call
          /\ IF r.call = NoCall
             THEN /\ pc' = [pc EXCEPT ![n] = "done"]
                  /\ outcome' = [outcome EXCEPT ![n] = ConverterCall(kind, r.out)]
                  /\ idx' = idx
             ELSE /\ pc' = [pc EXCEPT ![n] = "awaiting"]
                  /\ outcome' = outcome
                  /\ idx' = [idx EXCEPT ![n] = Len(calls) + 1]
    /\ UNCHANGED <<converter, argument, param, view, errors, attempts,
                   greedyVars, fuzzyVars, literalVars, kind, ctx, cache, instanceVars>>

\* invocation n: the remote side answers and convert() runs to its end
InvocationReply(n) ==
    /\ pc[n] = "awaiting"
    /\ \E resp \in Responses(calls[idx[n]]) :
          \E r \in {Resume(kind, calls[idx[n]], resp, argument, ctx, cache)} :
             /\ outcome' = [outcome EXCEPT ![n] = ConverterCall(kind, r.out)]
             /\ cache' = r.cache
             /\ calls' = [calls EXCEPT ![idx[n]].reply = resp]
    /\ stages' = [stages EXCEPT ![n] = Append(stages[n], "remote")]
    /\ pc' = [pc EXCEPT ![n] = "done"]
    /\ UNCHANGED <<converter, argument, param, view, idx, errors, attempts,
                   greedyVars, fuzzyVars, literalVars, kind, ctx, instanceVars>>

NextInterleaved == \E n \in Invocations : InvocationConvert(n) \/ InvocationReply(n)

InterleavedInit == InitInterleaved /\ IdleGreedy /\ IdleFuzzy /\ IdleLiteral /\ IdleInstances

SpecInterleaved == InterleavedInit /\ [][NextInterleaved]_vars

---------------------------------------------------------------------------
(* Claims about the caches *)

\* this step ends invocation n with the member the remote side found
FetchedMemberStep(n) ==
    /\ kind = "Member"
    /\ pc[n] = "awaiting"
    /\ pc'[n] = "done"
    /\ calls'[idx[n]].reply = "found"
    /\ outcome'[n] = Return(EntityVal(Fetched(calls[idx[n]])))

\* the other invocation has already ended with that same member
FetchedBefore(n) ==
    \E m \in Invocations \ {n} :
        /\ pc[m] = "done"
        /\ idx[m] # 0
        /\ calls[idx[m]].reply = "found"
        /\ Fetched(calls[idx[m]]) = Fetched(calls[idx[n]])

---------------------------------------------------------------------------
(* RoleConverter and RolesConverter side by side *)

InitRoleKinds ==
    \/ InitEntity /\ kind = "Role" /\ IdleGreedy
    \/ InitRoles

NextRoleKinds ==
    \/ kind = "Role" /\ EntityConvert
    \/ kind = "Roles" /\ NextRoles

RoleKindsInit == InitRoleKinds /\ IdleFuzzy /\ IdleLiteral /\ IdleInstances

SpecRoleKinds == RoleKindsInit /\ [][NextRoleKinds]_vars

---------------------------------------------------------------------------
(* Claims about roles outside a guild *)

\* C26: without a guild the conversion of a role and of a list of roles fails
\* with NoPrivateMessage for every token, and no pattern was matched, no cache
\* looked up, no segment converted and no fuzzy search run before it.
RoleInDMRaisesNoPrivateMessage ==
    (pc = "done" /\ ~ctx.guild) =>
        /\ ~outcome.ok
        /\ outcome.exc.type = "NoPrivateMessage"
        /\ stages = <<>>
        /\ attempts = <<>>
        /\ calls = <<>>

\* a list of two role IDs, both cached, has failed in a DM
RoleInDMWitness ==
    /\ pc = "done"
    /\ ~ctx.guild
    /\ kind = "Roles"
    /\ argument = <<"<", "@", "&">> \o KnownId \o <<">", ",", " ">> \o OtherId
    /\ Len(Everywhere(cache)) = 2
    /\ outcome.exc.type = "NoPrivateMessage"

---------------------------------------------------------------------------
(* Range: construction *)

\* the truth value of a bound: None, 0 and 0.0 are false
Truthy(bound) == bound # None /\ AsFloat(bound)[1] # 0

RangeTypeError(message) ==
    [type |-> "TypeError", conv |-> "Range", arg |-> <<>>, cause |-> "",
     message |-> message]

\* Range.__init__
RangeNew(annotation, min, max) ==
    IF Truthy(min) /\ Truthy(max) /\ FloatLess(AsFloat(max), AsFloat(min))
    THEN Raise(RangeTypeError("minimum cannot be larger than maximum"))
    ELSE Return([origin |-> "Range", annotation |-> annotation, min |-> min, max |-> max])

\* Range.__class_getitem__ for a tuple obj
RangeClassGetItem(obj) ==
    LET args == IF Len(obj) = 2 THEN Append(obj, None) ELSE obj IN
    IF Len(args) # 3
    THEN Raise(RangeTypeError("Range accepts either two or three arguments"))
    ELSE LET annotation == args[1]
             min == args[2]
             max == args[3]
         IN  IF min = None /\ max = None
             THEN Raise(RangeTypeError("Range must not be empty"))
             ELSE IF min # None /\ max # None /\ min.kind # max.kind
             THEN Raise(RangeTypeError("Both min and max in Range must be the same type"))
             ELSE IF annotation \notin {"int", "float", "str"}
             THEN Raise(RangeTypeError("expected int, float, or str as range type"))
             ELSE RangeNew(annotation, Cast(annotation, min), Cast(annotation, max))

SubscriptAnnotations == {"int", "float", "str", "bool"}
SubscriptBounds ==
    {None, IntVal(0 - 5), IntVal(0), IntVal(1), IntVal(10),
     FracVal(<<0, 1>>), FracVal(<<5, 2>>)}

\* the tuples Range is subscripted with
Subscripts ==
    {<<a>> : a \in SubscriptAnnotations}
        \cup {<<a, lo>> : a \in SubscriptAnnotations, lo \in SubscriptBounds}
        \cup {<<a, lo, hi>> : a \in SubscriptAnnotations,
                              lo \in SubscriptBounds, hi \in SubscriptBounds}

InitSubscript ==
    /\ converter \in [origin : {"Range"}, args : Subscripts]
    /\ argument = <<>>
    /\ param = [kind |-> "POSITIONAL_OR_KEYWORD", required |-> TRUE]
    /\ view = IdleView
    /\ pc = "subscript"
    /\ idx = 0
    /\ errors = <<>>
    /\ attempts = <<>>
    /\ outcome = Idle

\* Range[annotation, min, max] is evaluated
SubscriptCall ==
    /\ pc = "subscript"
    /\ pc' = "done"
    /\ outcome' = RangeClassGetItem(converter.args)
    /\ UNCHANGED <<converter, argument, param, view, idx, errors, attempts,
                   greedyVars, fuzzyVars, entityVars, literalVars, instanceVars>>

NextSubscript == SubscriptCall

SubscriptInit == InitSubscript /\ IdleGreedy /\ IdleFuzzy /\ IdleEntity /\ IdleLiteral /\ IdleInstances

SpecSubscript == SubscriptInit /\ [][NextSubscript]_vars

---------------------------------------------------------------------------
(* Claims about the construction of a Range *)

\* C27: subscripting Range with a type and two bounds of one type of which
\* the minimum is larger than the maximum raises TypeError('minimum cannot be
\* larger than maximum'), also when one of them is 0; so every Range that
\* exists with both bounds set has min <= max.
RangeMinNeverAboveMax ==
    pc = "done" =>
        /\ \A obj \in {converter.args} :
              (/\ Len(obj) = 3
               /\ obj[1] \in {"int", "float", "str"}
               /\ obj[2] # None /\ obj[3] # None
               /\ obj[2].kind = obj[3].kind
               /\ FloatLess(AsFloat(obj[3]), AsFloat(obj[2])))
                  => /\ ~outcome.ok
                     /\ outcome.exc.type = "TypeError"
                     /\ outcome.exc.message = "minimum cannot be larger than maximum"
        /\ (outcome.ok /\ outcome.val.min # None /\ outcome.val.max # None)
              => FloatLeq(AsFloat(outcome.val.min), AsFloat(outcome.val.max))

---------------------------------------------------------------------------
(* Greedy.constructed_converter and the converter instances *)

MaxRunTokens == 2
MaxReads == 2
MaxRuns == 2

\* the inner converter of the Greedy: a Converter class whose convert is an
\* instance method, one whose convert is a class method, a Converter instance,
\* or another callable
InnerForms == {"class", "classmethod", "instance", "callable"}

InstanceRef(i) == [kind |-> "instance", id |-> i]
ClassRef(form) == [kind |-> form, id |-> 0]
NewInstance == [calls |-> 0]

\* self.converter of the Greedy: the instance it was subscripted with (the
\* first of the instances) or the class or callable itself
SelfConverter(conv) ==
    IF conv.form = "instance" THEN InstanceRef(1) ELSE ClassRef(conv.form)

\* A bug the instance claim must detect: the class itself is handed on, and
\* _actual_conversion instantiates it for every token.
ConstructedConverterReturnsClass(conv, heap) ==
    [ref |-> SelfConverter(conv), instances |-> heap]

\* Greedy.constructed_converter
ConstructedConverter(conv, heap) ==
    IF conv.form = "class"
    THEN [ref |-> InstanceRef(Len(heap) + 1), instances |-> Append(heap, NewInstance)]
    ELSE [ref |-> SelfConverter(conv), instances |-> heap]

\* convert(ctx, argument) of the instance i, which counts the calls it serves
\* and returns the count
InstanceConvert(i, heap) ==
    [ref |-> InstanceRef(i),
     out |-> Return(IntVal(heap[i].calls + 1)),
     instances |-> [heap EXCEPT ![i].calls = heap[i].calls + 1]]

\* _actual_conversion with what constructed_converter returned: a Converter
\* class with an instance method is instantiated for this call, a class method
\* is called on the class, an instance is called as it is, another callable
\* is called with the token
ConvertWith(ref, heap, token) ==
    CASE ref.kind = "instance" -> InstanceConvert(ref.id, heap)
      [] ref.kind = "class" -> InstanceConvert(Len(heap) + 1, Append(heap, NewInstance))
      [] ref.kind = "classmethod" ->
            [ref |-> ref, out |-> Return(StrVal(token)), instances |-> heap]
      [] ref.kind = "callable" ->
            [ref |-> ref, out |-> Return(StrVal(token)), instances |-> heap]

\* the reads of constructed_converter made in this run
ReadsOfRun(run) == SelectSeq(reads, LAMBDA r : r.run = run)

InitInstances ==
    /\ converter \in [origin : {"Greedy"},
                      args : {<<[form |-> f, name |-> "Counter"]>> : f \in InnerForms}]
    /\ instances = IF converter.args[1].form = "instance" THEN <<NewInstance>> ELSE <<>>
    /\ reads = <<>>
    /\ argument = <<>>
    /\ param = [kind |-> "POSITIONAL_OR_KEYWORD", required |-> TRUE]
    /\ view \in [buffer : UNION {[1..n -> {<<"1">>}] : n \in 0..MaxRunTokens},
                 index : {0}, previous : {0}, undos : {0}]
    /\ pc = "enter"
    /\ idx = 0
    /\ errors = <<>>
    /\ attempts = <<>>
    /\ outcome = Idle
    /\ result = <<>>
    /\ nextRead = <<>>

\* a Greedy run begins: constructed_converter is read once, before the first
\* token, and its value converts every token of the run
GreedyEnter ==
    /\ pc = "enter"
    /\ \E cc \in {ConstructedConverter(converter.args[1], instances)} :
          /\ reads' = Append(reads, [run |-> idx, ref |-> cc.ref])
          /\ instances' = cc.instances
    /\ pc' = "greedy"
    /\ UNCHANGED <<converter, argument, param, view, idx, errors, attempts, outcome,
                   greedyVars, fuzzyVars, entityVars, literalVars>>

\* the run reads and converts its next token
GreedyConvert ==
    /\ pc = "greedy"
    /\ view.index < Len(view.buffer)
    /\ view' = ReadToken(view)
    /\ \E r \in {ConvertWith(ReadsOfRun(idx)[1].ref, instances,
                             view'.buffer[view'.index])} :
          /\ instances' = r.instances
          /\ attempts' = Append(attempts, [run |-> idx, ref |-> r.ref, out |-> r.out])
          /\ result' = Append(result, r.out.val)
    /\ UNCHANGED <<converter, argument, param, pc, idx, errors, outcome, nextRead,
                   reads, fuzzyVars, entityVars, literalVars>>

\* the tokens are exhausted: the run returns its list
GreedyReturn ==
    /\ pc = "greedy"
    /\ view.index = Len(view.buffer)
    /\ outcome' = Return(ListVal(result))
    /\ pc' = "returned"
    /\ UNCHANGED <<converter, argument, param, view, idx, errors, attempts,
                   greedyVars, fuzzyVars, entityVars, literalVars, instanceVars>>

\* constructed_converter is read once more while the run is under way
PropertyRead ==
    /\ pc = "greedy"
    /\ Len(ReadsOfRun(idx)) < MaxReads
    /\ \E cc \in {ConstructedConverter(converter.args[1], instances)} :
          /\ reads' = Append(reads, [run |-> idx, ref |-> cc.ref])
          /\ instances' = cc.instances
    /\ UNCHANGED <<converter, argument, param, view, pc, idx, errors, attempts, outcome,
                   greedyVars, fuzzyVars, entityVars, literalVars>>

\* the next command runs the same Greedy over the same tokens
NextCommand ==
    /\ pc = "returned"
    /\ idx + 1 < MaxRuns
    /\ idx' = idx + 1
    /\ view' = [view EXCEPT !.index = 0, !.previous = 0]
    /\ result' = <<>>
    /\ outcome' = Idle
    /\ pc' = "enter"
    /\ UNCHANGED <<converter, argument, param, errors, attempts, nextRead,
                   fuzzyVars, entityVars, literalVars, instanceVars>>

NextInstances ==
    GreedyEnter \/ GreedyConvert \/ GreedyReturn \/ PropertyRead \/ NextCommand

InstancesInit == InitInstances /\ IdleFuzzy /\ IdleEntity /\ IdleLiteral

SpecInstances == InstancesInit /\ [][NextInstances]_vars

---------------------------------------------------------------------------
(* Claims about converter instances *)

\* the conversions of one run are made by one converter, and those of
\* different runs of a Converter class by different instances
OneConverterPerRun ==
    \A a \in 1..Len(attempts), b \in 1..Len(attempts) :
        /\ attempts[a].run = attempts[b].run => attempts[a].ref = attempts[b].ref
        /\ (converter.args[1].form = "class" /\ attempts[a].run # attempts[b].run)
              => attempts[a].ref # attempts[b].ref

\* the instance of a Converter class keeps its state through the run and
\* starts afresh in the next: its k-th conversion of a run returns k
StatePersistsWithinRun ==
    converter.args[1].form = "class" =>
        \A a \in 1..Len(attempts) :
            attempts[a].out =
                Return(IntVal(Cardinality({b \in 1..a : attempts[b].run = attempts[a].run})))

-----------------------------------------------------------------------------
(* run_converters as a whole: every branch over the same token cursor *)

\* a call of run_converters on any of the branches: Union, Literal, a Range
\* converter, a plain callable or Converter, or one of the entity converters
RunConvertersInit == UnionInit \/ LiteralInit \/ RangeInit \/ DispatchInit \/ EntityInit

\* the branch taken is decided by `origin` and by the converter itself
NextRunConverters ==
    \/ converter.origin = "Union" /\ NextUnion
    \/ converter.origin = "Literal" /\ NextLiteral
    \/ converter.origin = "Range" /\ NextRange
    \/ converter.origin = "none" /\ kind = "none" /\ NextDispatch
    \/ kind # "none" /\ NextEntity

SpecRunConverters == RunConvertersInit /\ [][NextRunConverters]_vars

\* the loop of the Union branch stands at NoneType and the parameter is not
\* variadic
AtAbsenceBranch ==
    /\ converter.origin = "Union"
    /\ pc = "union"
    /\ idx < Len(converter.args)
    /\ converter.args[idx + 1] = "NoneType"
    /\ param.kind # "VAR_POSITIONAL"

\* C29: a step of run_converters changes the token cursor only in the Union
\* absence branch for a non-variadic parameter, there by one undo (the index
\* goes back to the previous one), on a cursor not undone before, and the call
\* is over with that step; every other step on every branch leaves the cursor
\* exactly as it was
CursorMovedOnlyByOneUndo ==
    [][view' # view =>
          /\ AtAbsenceBranch
          /\ view.undos = 0
          /\ view' = [view EXCEPT !.index = view.previous, !.undos = 1]
          /\ pc' = "done"]_vars

\* a Union call that has pushed the token back once and returned
CursorMovedWitness ==
    /\ converter.origin = "Union"
    /\ pc = "done"
    /\ view.undos = 1
    /\ view.index = view.previous
    /\ view.buffer = <<argument>>
    /\ outcome.ok

-----------------------------------------------------------------------------
(* RoleConverter: the fuzzy search under the default threshold *)

\* either a call of fuzzy_search on its own, or a RoleConverter.convert call
RoleSearchInit == FuzzyInit \/ (EntityInit /\ kind = "Role")

NextRoleSearch ==
    \/ kind = "none" /\ NextFuzzy
    \/ kind = "Role" /\ EntityConvert

SpecRoleSearch == RoleSearchInit /\ [][NextRoleSearch]_vars

\* the argument reads as a role ID or a role mention
RoleIdMatch == OrMatch(IdMatch(argument), MentionMatch(RoleSigils, argument))

\* ... and no role of the guild has that ID
UnknownRoleId ==
    /\ RoleIdMatch # NoMatch
    /\ FindById(cache.local, ParseId(RoleIdMatch[1])) = NoEntity

RoleReturned ==
    /\ outcome.ok
    /\ outcome.val.kind = "entity"
    /\ \E i \in 1..Len(cache.local) : outcome.val.val = cache.local[i]

\* C30: under threshold 3 a finished fuzzy_search over a non-empty list has
\* found one of the candidates, whatever the query; a finished RoleConverter
\* call in a guild with at least one role returns a role of the guild, with an
\* empty role list it raises RoleNotFound, and an argument that reads as an ID
\* or mention of a role the guild does not have is answered by the fuzzy stage
\* with a role of the guild
DefaultThresholdAlwaysFinds ==
    /\ (found # NotSearched /\ threshold = DefaultThreshold /\ choices # <<>>)
          => found \in 1..Len(choices)
    /\ (kind = "Role" /\ pc = "done" /\ ctx.guild) =>
          /\ cache.local # <<>> => RoleReturned
          /\ cache.local = <<>> =>
                ~outcome.ok /\ outcome.exc = NotFound("RoleNotFound", "Role", argument)
          /\ (UnknownRoleId /\ cache.local # <<>>) =>
                RoleReturned /\ stages = <<"id", "fuzzy">>

\* the mention of a role the guild does not have, answered with the only role
\* the guild has
UnknownRoleMentionWitness ==
    /\ kind = "Role"
    /\ pc = "done"
    /\ ctx.guild
    /\ argument = <<"<", "@", "&">> \o KnownId \o <<">">>
    /\ cache.local = <<Numeric>>
    /\ outcome = Return(EntityVal(Numeric))
    /\ stages = <<"id", "fuzzy">>

=============================================================================
